---- MODULE Spec2Model ----
(***************************************************************************)
(* Picker coordination engine of the warehouse simulation:                 *)
(* LargeWarehouse (grid), AStar (path planner), LoadCapacity (load model), *)
(* WarehousePicker (agent state machine) and PickerSwarmManager            *)
(* (coordinator and clock).                                                *)
(*                                                                         *)
(* Time is counted in tenths of a second, so that 1.0 + 0.1 * load_points  *)
(* is the integer 10 + load_points.  Every tick step of the model is a     *)
(* whole number of seconds, for which the float arithmetic of the source   *)
(* is exact.                                                               *)
(***************************************************************************)
EXTENDS Integers, Sequences, FiniteSets, TLC

(***************************************************************************)
(* Bounds of the model.                                                    *)
(***************************************************************************)
\* LargeWarehouse(width, depth): the smallest plan that has a shelf, an aisle,
\* the three-wide main hallway, both entrances and the exit corridor.
Width == 9
Depth == 12
\* The clock stops being advanced once it has reached MaxTime (tenths of a second).
MaxTime == 240
\* add_order is called at most MaxOrders times in a run.
MaxOrders == 2

(***************************************************************************)
(* shared_enums.py                                                         *)
(***************************************************************************)
PickerState == {"IDLE", "MOVING_TO_ITEM", "PICKING", "MOVING_TO_EXIT", "WAITING", "EXITING"}
ItemSize == {"SMALL", "MEDIUM", "LARGE"}
CellType == {"AISLE", "SHELF", "MAIN_HALLWAY", "ENTRANCE", "EXIT", "CROSS_AISLE", "WALL"}

(***************************************************************************)
(* LargeWarehouse: the floor plan                                          *)
(***************************************************************************)
Abs(n) == IF n < 0 THEN -n ELSE n

main_hallway_y == Depth \div 2

\* _create_storage_zones: the rows [start_y, end_y) of the upper and lower zone
InUpperZoneRows(y) == 3 <= y /\ y < (Depth \div 2) - 2
InLowerZoneRows(y) == (Depth \div 2) + 3 <= y /\ y < Depth - 3
\* _create_zone: columns [3, width-3), two shelf columns then two aisle columns
InZone(x, y) == 3 <= x /\ x < Width - 3 /\ (InUpperZoneRows(y) \/ InLowerZoneRows(y))
ZoneCell(x) == IF (x - 3) % 4 \in {0, 1} THEN "SHELF" ELSE "AISLE"

\* _create_warehouse_layout: walls, then the hallway, the zones, the entry and
\* exit points and the cross-aisles, each overwriting what was there
LayoutCell(x, y) ==
    IF /\ x \in {c \in 8..(Width - 3) : (c - 8) % 8 = 0}
       /\ InZone(x, y) /\ ZoneCell(x) = "SHELF"
    THEN "CROSS_AISLE"
    ELSE IF x \in {Width - 1, Width - 2} /\ y = Depth \div 2 THEN "EXIT"
    ELSE IF x \in {0, 1} /\ y \in {Depth \div 2, (Depth \div 2) + 1} THEN "ENTRANCE"
    ELSE IF InZone(x, y) THEN ZoneCell(x)
    ELSE IF 2 <= x /\ x < Width - 2 /\ main_hallway_y - 1 <= y /\ y < main_hallway_y + 2
    THEN "MAIN_HALLWAY"
    ELSE "WALL"

layout_grid == [c \in (0..(Width - 1)) \X (0..(Depth - 1)) |-> LayoutCell(c[1], c[2])]

entrances == << <<0, Depth \div 2>>, <<0, (Depth \div 2) + 1>> >>
exit == <<Width - 1, Depth \div 2>>

get_cell_type(x, y) ==
    IF 0 <= x /\ x < Width /\ 0 <= y /\ y < Depth THEN layout_grid[<<x, y>>] ELSE "WALL"

\* an is_walkable that takes shelves for floor
is_walkable_Shelves(x, y) ==
    get_cell_type(x, y) \in {"AISLE", "SHELF", "MAIN_HALLWAY", "CROSS_AISLE", "ENTRANCE", "EXIT"}

is_walkable(x, y) ==
    get_cell_type(x, y) \in {"AISLE", "MAIN_HALLWAY", "CROSS_AISLE", "ENTRANCE", "EXIT"}

\* get_accessible_neighbors: the walkable cells among the four neighbours
directions == << <<0, 1>>, <<0, -1>>, <<1, 0>>, <<-1, 0>> >>

get_accessible_neighbors(x, y) ==
    LET cand == [k \in 1..4 |-> <<x + directions[k][1], y + directions[k][2]>>]
    IN  SelectSeq(cand, LAMBDA n : is_walkable(n[1], n[2]))

(***************************************************************************)
(* None, where the source returns or stores None                           *)
(***************************************************************************)
None == <<>>
\* None where an Item is expected
NoItem == [id |-> "None"]

(***************************************************************************)
(* StorageCell and the storage of LargeWarehouse                           *)
(***************************************************************************)
WeightClass == {"LIGHT", "MEDIUM", "HEAVY"}

\* LargeWarehouse(width, depth, levels=3)
levels == 3

\* _initialize_storage_cells: one cell per shelf location and level; the dict
\* is filled, and later scanned, by x, then y, then level
StorageKeys ==
    {k \in (0..(Width - 1)) \X (0..(Depth - 1)) \X (1..levels) :
        layout_grid[<<k[1], k[2]>>] = "SHELF"}

KeyBefore(a, b) ==
    \/ a[1] < b[1]
    \/ a[1] = b[1] /\ a[2] < b[2]
    \/ a[1] = b[1] /\ a[2] = b[2] /\ a[3] < b[3]

NewStorageCell(k) == [current_items |-> <<>>, level |-> k[3], x |-> k[1], y |-> k[2]]

\* can_store_item: lines 54-61, the space used in small-item units
RECURSIVE space_used(_)
space_used(current_items) ==
    IF current_items = <<>> THEN 0
    ELSE (CASE Head(current_items).size = "LARGE"  -> 4
            [] Head(current_items).size = "MEDIUM" -> 2
            [] Head(current_items).size = "SMALL"  -> 1)
         + space_used(Tail(current_items))

\* can_store_item: lines 64-70
space_needed(item) ==
    CASE item.size = "SMALL" -> 1 [] item.size = "MEDIUM" -> 2 [] item.size = "LARGE" -> 4

\* a can_store_item whose capacity test is off by one
can_store_item_OffByOne(cell, item) ==
    IF item.weight_class = "HEAVY" /\ cell.level > 1 THEN FALSE
    ELSE IF item.weight_class = "MEDIUM" /\ cell.level > 2 THEN FALSE
    ELSE space_used(cell.current_items) + space_needed(item) <= 5

\* a can_store_item that lets heavy items up to the second level
can_store_item_HeavyOnTwo(cell, item) ==
    IF item.weight_class = "HEAVY" /\ cell.level > 2 THEN FALSE
    ELSE IF item.weight_class = "MEDIUM" /\ cell.level > 2 THEN FALSE
    ELSE space_used(cell.current_items) + space_needed(item) <= 4

can_store_item(cell, item) ==
    IF item.weight_class = "HEAVY" /\ cell.level > 1 THEN FALSE
    ELSE IF item.weight_class = "MEDIUM" /\ cell.level > 2 THEN FALSE
    ELSE space_used(cell.current_items) + space_needed(item) <= 4

\* StorageCell.add_item: the cell afterwards and the value returned
cell_add_item(cell, item) ==
    IF can_store_item(cell, item)
    THEN [cell |-> [cell EXCEPT !.current_items = Append(@, item)], ret |-> TRUE]
    ELSE [cell |-> cell, ret |-> FALSE]

\* the index of the first item of the list that has this id, 0 if there is none
RECURSIVE FirstWithId(_, _, _)
FirstWithId(current_items, item_id, i) ==
    IF i > Len(current_items) THEN 0
    ELSE IF current_items[i].id = item_id THEN i
    ELSE FirstWithId(current_items, item_id, i + 1)

\* a remove_item that returns the item and leaves it in the cell
cell_remove_item_Keeps(cell, item_id) ==
    LET i == FirstWithId(cell.current_items, item_id, 1)
    IN  IF i = 0 THEN [cell |-> cell, ret |-> NoItem]
        ELSE [cell |-> cell, ret |-> cell.current_items[i]]

\* StorageCell.remove_item: pops the first item that has this id
cell_remove_item(cell, item_id) ==
    LET i == FirstWithId(cell.current_items, item_id, 1)
    IN  IF i = 0 THEN [cell |-> cell, ret |-> NoItem]
        ELSE [cell |-> [cell EXCEPT !.current_items =
                           SubSeq(@, 1, i - 1) \o SubSeq(@, i + 1, Len(@))],
              ret  |-> cell.current_items[i]]

\* get_storage_cell: storage_cells.get((x, y, level))
HasStorageCell(cells, k) == k \in DOMAIN cells

place_item(cells, item, k) ==
    IF HasStorageCell(cells, k) /\ can_store_item(cells[k], item)
    THEN LET r == cell_add_item(cells[k], item)
         IN  [storage_cells |-> [cells EXCEPT ![k] = r.cell], ret |-> r.ret]
    ELSE [storage_cells |-> cells, ret |-> FALSE]

remove_item(cells, item_id, k) ==
    IF HasStorageCell(cells, k)
    THEN LET r == cell_remove_item(cells[k], item_id)
         IN  [storage_cells |-> [cells EXCEPT ![k] = r.cell], ret |-> r.ret]
    ELSE [storage_cells |-> cells, ret |-> NoItem]

\* find_item: the first cell, in the order of the dict, that holds the id
find_item(cells, item_id) ==
    LET holding == {k \in DOMAIN cells : FirstWithId(cells[k].current_items, item_id, 1) # 0}
    IN  IF holding = {} THEN None
        ELSE LET k == CHOOSE a \in holding : \A b \in holding : a = b \/ KeyBefore(a, b)
             IN  <<k[1], k[2], k[3],
                   cells[k].current_items[FirstWithId(cells[k].current_items, item_id, 1)]>>

(***************************************************************************)
(* The workers of LargeWarehouse                                           *)
(***************************************************************************)
\* worker_positions is a dict: its entries in the order they were inserted,
\* each entry <<(x, y), worker_id>>
NoWorkers == <<>>

WorkerCells(workers) == {workers[i][1] : i \in 1..Len(workers)}

\* a can_place_worker that does not look at who stands on the cell
can_place_worker_AnyWalkable(workers, x, y) == is_walkable(x, y)

can_place_worker(workers, x, y) == is_walkable(x, y) /\ <<x, y>> \notin WorkerCells(workers)

place_worker(workers, x, y, worker_id) ==
    IF can_place_worker(workers, x, y)
    THEN [worker_positions |-> Append(workers, << <<x, y>>, worker_id >>), ret |-> TRUE]
    ELSE [worker_positions |-> workers, ret |-> FALSE]

\* the index of the first entry of this worker, 0 if there is none
RECURSIVE FirstEntryOf(_, _, _)
FirstEntryOf(workers, worker_id, i) ==
    IF i > Len(workers) THEN 0
    ELSE IF workers[i][2] = worker_id THEN i
    ELSE FirstEntryOf(workers, worker_id, i + 1)

remove_worker(workers, worker_id) ==
    LET i == FirstEntryOf(workers, worker_id, 1)
    IN  IF i = 0 THEN [worker_positions |-> workers, ret |-> None]
        ELSE [worker_positions |-> SubSeq(workers, 1, i - 1) \o SubSeq(workers, i + 1, Len(workers)),
              ret |-> workers[i][1]]

(***************************************************************************)
(* AStar                                                                   *)
(***************************************************************************)

\* a heuristic that overestimates the distance
heuristic_Weighted(pos1, pos2) == 3 * (Abs(pos1[1] - pos2[1]) + Abs(pos1[2] - pos2[2]))

heuristic(pos1, pos2) == Abs(pos1[1] - pos2[1]) + Abs(pos1[2] - pos2[2])

\* the four moves in the order the source tries them
Moves == << <<0, 1>>, <<0, -1>>, <<1, 0>>, <<-1, 0>> >>

get_neighbors(pos) ==
    LET cand == [k \in 1..4 |-> <<pos[1] + Moves[k][1], pos[2] + Moves[k][2]>>]
    IN  SelectSeq(cand, LAMBDA n : is_walkable(n[1], n[2]))

\* heapq orders the entries (f, (x, y)) as Python orders tuples
HeapLess(a, b) ==
    \/ a[1] < b[1]
    \/ a[1] = b[1] /\ a[2][1] < b[2][1]
    \/ a[1] = b[1] /\ a[2][1] = b[2][1] /\ a[2][2] < b[2][2]

HeapMin(open_set) == CHOOSE a \in open_set : \A b \in open_set : a = b \/ HeapLess(a, b)

\* the path is rebuilt by following came_from back from the goal
RECURSIVE ReconstructPath(_, _, _)
ReconstructPath(came_from, current, start) ==
    IF current \in DOMAIN came_from
    THEN Append(ReconstructPath(came_from, came_from[current], start), current)
    ELSE <<start>>

\* a relaxation that does not skip the blocked positions
RECURSIVE Relax_IgnoresBlocked(_, _, _, _, _, _)
Relax_IgnoresBlocked(nbrs, k, current, goal, blocked, s) ==
    IF k > Len(nbrs) THEN s
    ELSE LET neighbor == nbrs[k]
             tentative_g_score == s.g_score[current] + 1
         IN  IF neighbor \notin DOMAIN s.g_score \/ tentative_g_score < s.g_score[neighbor]
             THEN Relax_IgnoresBlocked(nbrs, k + 1, current, goal, blocked,
                        [open_set  |-> s.open_set \cup
                                        {<<tentative_g_score + heuristic(neighbor, goal), neighbor>>},
                         came_from |-> [c \in DOMAIN s.came_from \cup {neighbor} |->
                                           IF c = neighbor THEN current ELSE s.came_from[c]],
                         g_score   |-> [c \in DOMAIN s.g_score \cup {neighbor} |->
                                           IF c = neighbor THEN tentative_g_score ELSE s.g_score[c]]])
             ELSE Relax_IgnoresBlocked(nbrs, k + 1, current, goal, blocked, s)

\* one neighbour of the expanded cell: lines 135-144
RECURSIVE Relax(_, _, _, _, _, _)
Relax(nbrs, k, current, goal, blocked, s) ==
    IF k > Len(nbrs) THEN s
    ELSE LET neighbor == nbrs[k]
             tentative_g_score == s.g_score[current] + 1
         IN  IF neighbor \in blocked THEN Relax(nbrs, k + 1, current, goal, blocked, s)
             ELSE IF neighbor \notin DOMAIN s.g_score \/ tentative_g_score < s.g_score[neighbor]
             THEN Relax(nbrs, k + 1, current, goal, blocked,
                        [open_set  |-> s.open_set \cup
                                        {<<tentative_g_score + heuristic(neighbor, goal), neighbor>>},
                         came_from |-> [c \in DOMAIN s.came_from \cup {neighbor} |->
                                           IF c = neighbor THEN current ELSE s.came_from[c]],
                         g_score   |-> [c \in DOMAIN s.g_score \cup {neighbor} |->
                                           IF c = neighbor THEN tentative_g_score ELSE s.g_score[c]]])
             ELSE Relax(nbrs, k + 1, current, goal, blocked, s)

\* the while loop of find_path: lines 121-146
RECURSIVE AStarLoop(_, _, _, _)
AStarLoop(s, start, goal, blocked) ==
    IF s.open_set = {} THEN <<>>
    ELSE LET top == HeapMin(s.open_set)
             current == top[2]
             popped == [s EXCEPT !.open_set = s.open_set \ {top}]
         IN  IF current = goal THEN ReconstructPath(s.came_from, current, start)
             ELSE AStarLoop(Relax(get_neighbors(current), 1, current, goal, blocked, popped),
                            start, goal, blocked)

\* a find_path that gives up when its start is blocked
find_path_BlockedStart(start, goal, blocked_positions) ==
    IF start \in blocked_positions THEN <<>>
    ELSE IF start = goal THEN <<start>>
    ELSE AStarLoop([open_set  |-> {<<0, start>>},
                    came_from |-> [c \in {} |-> None],
                    g_score   |-> [c \in {start} |-> 0]],
                   start, goal, blocked_positions)

find_path(start, goal, blocked_positions) ==
    IF start = goal THEN <<start>>
    ELSE AStarLoop([open_set  |-> {<<0, start>>},
                    came_from |-> [c \in {} |-> None],
                    g_score   |-> [c \in {start} |-> 0]],
                   start, goal, blocked_positions)

(***************************************************************************)
(* OrderItem, PickOrder, LoadCapacity                                      *)
(***************************************************************************)
\* LoadCapacity.max_points
max_points == 4

ItemPoints(size) == CASE size = "SMALL" -> 1 [] size = "MEDIUM" -> 2 [] size = "LARGE" -> 4

EmptyLoad == [items_carried |-> <<>>, load_points |-> 0]

\* a capacity check that is off by one
can_carry_OffByOne(load, item) == load.load_points + ItemPoints(item.size) <= max_points + 1

can_carry(load, item) == load.load_points + ItemPoints(item.size) <= max_points

\* an add_item that does not ask can_carry
add_item_Unchecked(load, item) ==
    [items_carried |-> Append(load.items_carried, item),
     load_points   |-> load.load_points + ItemPoints(item.size)]

add_item(load, item) ==
    IF can_carry(load, item)
    THEN [items_carried |-> Append(load.items_carried, item),
          load_points   |-> load.load_points + ItemPoints(item.size)]
    ELSE load

\* the value add_item returns
add_item_returns(load, item) == IF can_carry(load, item) THEN TRUE ELSE FALSE

\* a movement penalty that ignores the load
get_movement_penalty_None(load) == 0

\* 0.1 seconds per load point
get_movement_penalty(load) == load.load_points * 1

\* current_order = None
NoOrder == [order_id |-> 0, items |-> <<>>, priority |-> 0, created_time |-> 0]

(***************************************************************************)
(* Inputs: the order items and the orders a host hands to add_order.       *)
(***************************************************************************)
\* an item stored where place_item puts items: in a storage cell of a shelf
SmallShelf == [item_id |-> "S_SHELF", size |-> "SMALL", location |-> <<3, 3, 1>>, pick_time |-> 10]
\* items whose location is a walkable cell of the main hallway
SmallHall == [item_id |-> "S_HALL", size |-> "SMALL", location |-> <<3, 5, 1>>, pick_time |-> 10]
LargeHall == [item_id |-> "L_HALL", size |-> "LARGE", location |-> <<4, 7, 1>>, pick_time |-> 20]

OrderTemplates ==
    { [items |-> <<SmallShelf>>,            priority |-> 1],
      [items |-> <<SmallHall>>,             priority |-> 2],
      [items |-> <<LargeHall, SmallHall>>,  priority |-> 3],
      [items |-> <<SmallHall, SmallShelf>>, priority |-> 1],
      [items |-> <<>>,                      priority |-> 2] }

\* a medium item, for the calls made on a LoadCapacity on its own
MediumHall == [item_id |-> "M_HALL", size |-> "MEDIUM", location |-> <<2, 6, 1>>, pick_time |-> 15]
LoadItems == {SmallShelf, SmallHall, MediumHall, LargeHall}

\* the Items a host stores: Item(id, size, weight_class)
SmallLight  == [id |-> "A", size |-> "SMALL",  weight_class |-> "LIGHT"]
MediumMedium == [id |-> "B", size |-> "MEDIUM", weight_class |-> "MEDIUM"]
LargeHeavy  == [id |-> "C", size |-> "LARGE",  weight_class |-> "HEAVY"]
StoredItems == {SmallLight, MediumMedium, LargeHeavy}
ItemIds == {it.id : it \in StoredItems}
\* locations without a storage cell: an aisle, a cell outside the grid, a
\* level above the last
OtherKeys == {<<5, 3, 1>>, <<-1, 3, 1>>, <<3, 3, levels + 1>>} \ StorageKeys
\* the storage cells the host uses: every level of the first shelf location,
\* and the first level of the one next to it
UsedKeys == {k \in StorageKeys : k[2] = 3 /\ (k[1] = 3 \/ (k[1] = 4 /\ k[3] = 1))}
\* at most MaxStored items are in storage at a time
MaxStored == 4

\* the cells a host places workers on: both entrances, a hallway cell and the
\* exit, and three cells no worker can stand on (a shelf, a wall, outside)
WorkerProbes ==
    {entrances[1], entrances[2], <<2, main_hallway_y>>, exit,
     <<3, 3>>, <<0, 0>>, <<-1, main_hallway_y>>}
WorkerIds == {"WORKER_01", "WORKER_02"}

\* the coordinates the grid is asked about: the grid and two cells around it
GridProbes == ((-2)..(Width + 1)) \X ((-2)..(Depth + 1))
\* the cells paths are planned between: the walkable cells, a shelf, a wall
\* and a cell outside the grid
PathCells ==
    {c \in (0..(Width - 1)) \X (0..(Depth - 1)) : is_walkable(c[1], c[2])}
    \cup {<<3, 3>>, <<0, 0>>, <<-1, main_hallway_y>>}
\* the blocked_positions handed to find_path: none, one hallway cell, two of a
\* column (a detour), a whole column of the hallway (a cut), an entrance with
\* the exit
BlockedSets ==
    { {},
      {<<4, main_hallway_y>>},
      {<<4, main_hallway_y - 1>>, <<4, main_hallway_y>>},
      {<<3, main_hallway_y - 1>>, <<3, main_hallway_y>>, <<3, main_hallway_y + 1>>},
      {entrances[1], exit} }

\* PickerSwarmManager(warehouse, num_pickers)
PickerCounts == {1, 2}
\* the steps of update_simulation(time_step), in tenths of a second
TimeSteps == {0, 10}
\* add_order is called while the clock is at most LastAddTime
LastAddTime == 10

(***************************************************************************)
(* State                                                                   *)
(***************************************************************************)
VARIABLES
    current_time,     \* PickerSwarmManager.current_time
    pickers,          \* PickerSwarmManager.pickers, one record per WarehousePicker
    pending_orders,   \* PickerSwarmManager.pending_orders
    orders_added,     \* number of add_order calls so far (the order ids handed in)
    pc,               \* position inside update_simulation: 0 outside of it,
                      \* i when picker i is the next to be updated,
                      \* Len(pickers) + 1 when assign_orders is due
    time_step,        \* the argument of the update_simulation call in progress
    failure,          \* the exception that left update_simulation, or "none"
    contested,        \* history, not a field of the program: for each picker the
                      \* cells it was made to wait for, whether it has
                      \* stepped onto one of them since, and whether its path
                      \* is one _replan_path took from its fallback
    load_capacity,    \* a LoadCapacity object used on its own
    storage_cells,    \* LargeWarehouse.storage_cells: (x, y, level) -> current_items
    worker_positions, \* LargeWarehouse.worker_positions: (x, y) -> worker id
    call              \* the last call made on one of these objects, with what it returned

\* the state of the simulation, and the state of the objects used on their own
sim_vars == <<current_time, pickers, pending_orders, orders_added, pc, time_step, failure,
              contested>>
unit_vars == <<load_capacity, storage_cells, worker_positions, call>>

vars == <<current_time, pickers, pending_orders, orders_added, pc, time_step, failure,
          contested, load_capacity, storage_cells, worker_positions, call>>

\* WarehousePicker.__init__
\* no call has been made yet
NoCall == [op |-> "none"]

NewPicker ==
    [position           |-> entrances[1],
     target_position    |-> None,
     current_path       |-> <<>>,
     path_index         |-> 0,
     state              |-> "IDLE",
     load               |-> EmptyLoad,
     current_order      |-> NoOrder,
     current_item_index |-> 0,
     last_move_time     |-> 0,
     pick_start_time    |-> 0,
     wait_start_time    |-> 0,
     total_distance     |-> 0,
     total_pick_time    |-> 0,
     total_wait_time    |-> 0,
     orders_completed   |-> 0]

(***************************************************************************)
(* WarehousePicker                                                         *)
(***************************************************************************)
_plan_path_to_exit(p) == [p EXCEPT !.target_position = exit, !.state = "MOVING_TO_EXIT"]

_plan_next_item(p) ==
    IF p.current_order = NoOrder \/ p.current_item_index >= Len(p.current_order.items)
    THEN _plan_path_to_exit(p)
    ELSE LET next_item == p.current_order.items[p.current_item_index + 1]
         IN  IF ~can_carry(p.load, next_item)
             THEN _plan_path_to_exit(p)
             ELSE [p EXCEPT !.target_position = <<next_item.location[1], next_item.location[2]>>,
                            !.state = "MOVING_TO_ITEM"]

\* an assign_order that also takes a picker that is Waiting
AssignAccepts_Waiting(p) ==
    \/ p.state = "IDLE" /\ p.current_order = NoOrder
    \/ p.state = "WAITING"

\* assign_order returns True exactly when it changes the picker
AssignAccepts(p) == p.state = "IDLE" /\ p.current_order = NoOrder

\* an assign_order that refuses an order without items
assign_order_RefusesEmpty(p, order) ==
    IF AssignAccepts(p) /\ order.items # <<>>
    THEN [p EXCEPT !.current_order = order,
                   !.current_item_index = 0,
                   !.load = EmptyLoad,
                   !.target_position = <<order.items[1].location[1], order.items[1].location[2]>>,
                   !.state = "MOVING_TO_ITEM"]
    ELSE p

assign_order(p, order) ==
    IF AssignAccepts(p)
    THEN _plan_next_item([p EXCEPT !.current_order = order,
                                   !.current_item_index = 0,
                                   !.load = EmptyLoad])
    ELSE p

_start_picking(p, t) == [p EXCEPT !.state = "PICKING", !.pick_start_time = t]

_start_exiting(p, t) == [p EXCEPT !.state = "EXITING", !.pick_start_time = t]

\* self is picker i of the list ps; the other pickers are read as they are now
\* a collision check that sees no peer
_check_for_collisions_Blind(p, i, ps) == FALSE

_check_for_collisions(p, i, ps) ==
    IF p.path_index >= Len(p.current_path) THEN FALSE
    ELSE LET next_position == p.current_path[p.path_index + 1]
         IN  \E j \in 1..Len(ps) :
                /\ j # i
                /\ \/ ps[j].position = next_position
                   \/ /\ ps[j].path_index < Len(ps[j].current_path)
                      /\ ps[j].current_path[ps[j].path_index + 1] = p.position
                      /\ p.current_path[p.path_index + 1] = ps[j].position

Min(a, b) == IF a < b THEN a ELSE b

\* blocked positions without the peers' planned cells
BlockedPositions_PositionsOnly(i, ps, avoid_congestion) ==
    {ps[j].position : j \in (1..Len(ps)) \ {i}}

BlockedPositions(i, ps, avoid_congestion) ==
    {ps[j].position : j \in (1..Len(ps)) \ {i}} \cup
    (IF avoid_congestion
     THEN UNION {{ps[j].current_path[k + 1] :
                     k \in ps[j].path_index ..
                           (Min(ps[j].path_index + 3, Len(ps[j].current_path)) - 1)} :
                 j \in (1..Len(ps)) \ {i}}
     ELSE {})

\* a _replan_path that heads straight for the target when no path is found
_replan_path_Straight(p, i, ps, avoid_congestion) ==
    IF p.target_position = None THEN p
    ELSE LET new_path == find_path(p.position, p.target_position,
                                   BlockedPositions(i, ps, avoid_congestion))
         IN  IF new_path # <<>>
             THEN [p EXCEPT !.current_path = Tail(new_path), !.path_index = 0]
             ELSE [p EXCEPT !.current_path = <<p.target_position>>, !.path_index = 0]

\* a _replan_path that never looks at the peers
_replan_path_IgnoresPeers(p, i, ps, avoid_congestion) ==
    IF p.target_position = None THEN p
    ELSE [p EXCEPT !.current_path = find_path(p.position, p.target_position, {}),
                   !.path_index = 0]

_replan_path(p, i, ps, avoid_congestion) ==
    IF p.target_position = None THEN p
    ELSE LET new_path == find_path(p.position, p.target_position,
                                   BlockedPositions(i, ps, avoid_congestion))
         IN  IF new_path # <<>>
             THEN [p EXCEPT !.current_path = Tail(new_path), !.path_index = 0]
             ELSE [p EXCEPT !.current_path = find_path(p.position, p.target_position, {}),
                            !.path_index = 0]

\* lines 261-267
TakeStep(p, t) ==
    IF p.path_index < Len(p.current_path)
    THEN [p EXCEPT !.position = p.current_path[p.path_index + 1],
                   !.path_index = p.path_index + 1,
                   !.last_move_time = t,
                   !.total_distance = p.total_distance + 1]
    ELSE p

\* lines 269-274
Arrive(p, t) ==
    IF p.position = p.target_position
    THEN IF p.state = "MOVING_TO_ITEM" THEN _start_picking(p, t)
         ELSE IF p.state = "MOVING_TO_EXIT" THEN _start_exiting(p, t)
         ELSE p
    ELSE p

\* a movement update that notes the collision and takes the step all the same
_update_movement_StepsAnyway(p, i, ps, t) ==
    IF p.target_position = None THEN p
    ELSE LET planned == IF p.current_path = <<>> \/ p.path_index >= Len(p.current_path)
                        THEN _replan_path(p, i, ps, FALSE)
                        ELSE p
             move_delay == 10 + get_movement_penalty(planned.load)
         IN  IF t - planned.last_move_time < move_delay THEN planned
             ELSE IF _check_for_collisions(planned, i, ps)
             THEN [TakeStep(planned, t) EXCEPT !.state = "WAITING", !.wait_start_time = t]
             ELSE Arrive(TakeStep(planned, t), t)

_update_movement(p, i, ps, t) ==
    IF p.target_position = None THEN p
    ELSE LET planned == IF p.current_path = <<>> \/ p.path_index >= Len(p.current_path)
                        THEN _replan_path(p, i, ps, FALSE)
                        ELSE p
             move_delay == 10 + get_movement_penalty(planned.load)
         IN  IF t - planned.last_move_time < move_delay THEN planned
             ELSE IF _check_for_collisions(planned, i, ps)
             THEN [planned EXCEPT !.state = "WAITING", !.wait_start_time = t]
             ELSE Arrive(TakeStep(planned, t), t)

\* self.current_order.items[self.current_item_index] past the end of the list
PickingRaises(p) ==
    /\ p.state = "PICKING"
    /\ p.current_order # NoOrder
    /\ p.current_item_index >= Len(p.current_order.items)

_update_picking(p, t) ==
    IF p.current_order = NoOrder THEN p
    ELSE LET current_item == p.current_order.items[p.current_item_index + 1]
         IN  IF t - p.pick_start_time >= current_item.pick_time
             THEN _plan_next_item([p EXCEPT !.load = add_item(p.load, current_item),
                                            !.total_pick_time = p.total_pick_time + current_item.pick_time,
                                            !.current_item_index = p.current_item_index + 1])
             ELSE p

ResumeState(p) == IF p.target_position # None THEN "MOVING_TO_ITEM" ELSE "IDLE"

\* an _update_waiting without the timeout
_update_waiting_NoTimeout(p, i, ps, t) ==
    IF ~_check_for_collisions(p, i, ps)
    THEN [p EXCEPT !.total_wait_time = p.total_wait_time + (t - p.wait_start_time),
                   !.state = ResumeState(p)]
    ELSE p

_update_waiting(p, i, ps, t) ==
    IF ~_check_for_collisions(p, i, ps)
    THEN [p EXCEPT !.total_wait_time = p.total_wait_time + (t - p.wait_start_time),
                   !.state = ResumeState(p)]
    ELSE IF t - p.wait_start_time > 50
    THEN [_replan_path(p, i, ps, TRUE) EXCEPT !.state = ResumeState(p)]
    ELSE p

\* an _update_exiting that wants more than 2.0 elapsed
_update_exiting_Late(p, t) ==
    IF t - p.pick_start_time > 20
    THEN [p EXCEPT !.orders_completed = p.orders_completed + 1,
                   !.current_order = NoOrder,
                   !.current_item_index = 0,
                   !.load = EmptyLoad,
                   !.state = "IDLE",
                   !.position = entrances[1]]
    ELSE p

_update_exiting(p, t) ==
    IF t - p.pick_start_time >= 20
    THEN [p EXCEPT !.orders_completed = p.orders_completed + 1,
                   !.current_order = NoOrder,
                   !.current_item_index = 0,
                   !.load = EmptyLoad,
                   !.state = "IDLE",
                   !.position = entrances[1]]
    ELSE p

\* an update that lets an Idle picker walk on towards the target it still has
update_IdleWalks(p, i, ps, t) ==
    CASE p.state = "IDLE"           -> _update_movement(p, i, ps, t)
      [] p.state = "MOVING_TO_ITEM" -> _update_movement(p, i, ps, t)
      [] p.state = "PICKING"        -> _update_picking(p, t)
      [] p.state = "MOVING_TO_EXIT" -> _update_movement(p, i, ps, t)
      [] p.state = "WAITING"        -> _update_waiting(p, i, ps, t)
      [] p.state = "EXITING"        -> _update_exiting(p, t)

update(p, i, ps, t) ==
    CASE p.state = "IDLE"           -> p
      [] p.state = "MOVING_TO_ITEM" -> _update_movement(p, i, ps, t)
      [] p.state = "PICKING"        -> _update_picking(p, t)
      [] p.state = "MOVING_TO_EXIT" -> _update_movement(p, i, ps, t)
      [] p.state = "WAITING"        -> _update_waiting(p, i, ps, t)
      [] p.state = "EXITING"        -> _update_exiting(p, t)

(***************************************************************************)
(* PickerSwarmManager                                                      *)
(***************************************************************************)
\* available_pickers: the indices of the Idle pickers, in list order
RECURSIVE IdleFrom(_, _)
IdleFrom(ps, i) ==
    IF i > Len(ps) THEN <<>>
    ELSE IF ps[i].state = "IDLE" THEN <<i>> \o IdleFrom(ps, i + 1)
    ELSE IdleFrom(ps, i + 1)

\* a list of available pickers that holds every picker, busy or not
available_pickers_Everyone(ps) == [i \in 1..Len(ps) |-> i]

available_pickers(ps) == IdleFrom(ps, 1)

\* an assignment loop that takes the newest order (pop() for popleft())
RECURSIVE AssignLoop_Lifo(_, _, _)
AssignLoop_Lifo(ps, pending, available) ==
    IF pending = <<>> \/ available = <<>>
    THEN [pickers |-> ps, pending_orders |-> pending]
    ELSE AssignLoop_Lifo([ps EXCEPT ![Head(available)] =
                             assign_order(ps[Head(available)], pending[Len(pending)])],
                         SubSeq(pending, 1, Len(pending) - 1), Tail(available))

\* the while loop of assign_orders: both heads are popped, then the picker is asked
RECURSIVE AssignLoop(_, _, _)
AssignLoop(ps, pending, available) ==
    IF pending = <<>> \/ available = <<>>
    THEN [pickers |-> ps, pending_orders |-> pending]
    ELSE AssignLoop([ps EXCEPT ![Head(available)] = assign_order(ps[Head(available)], Head(pending))],
                    Tail(pending), Tail(available))

\* an assign_orders that pops every pending order and hands out those it can
assign_orders_Drains(ps, pending) ==
    [pickers        |-> AssignLoop(ps, pending, available_pickers(ps)).pickers,
     pending_orders |-> <<>>]

assign_orders(ps, pending) == AssignLoop(ps, pending, available_pickers(ps))

Init ==
    /\ current_time = 0
    /\ \E n \in PickerCounts : pickers = [i \in 1..n |-> NewPicker]
    /\ pending_orders = <<>>
    /\ orders_added = 0
    /\ pc = 0
    /\ time_step = 0
    /\ failure = "none"
    /\ contested = [i \in 1..Len(pickers) |-> [cells |-> {}, passed |-> FALSE, fallback |-> FALSE]]
    /\ load_capacity = EmptyLoad
    /\ storage_cells = [k \in StorageKeys |-> NewStorageCell(k)]
    /\ worker_positions = NoWorkers
    /\ call = NoCall

\* the created_time an order carries when it is handed to add_order: the
\* default of PickOrder, or a time the host wrote
CarriedTimes == {0, 7}

\* an add_order that keeps the timestamp the order carries
add_order_KeepsStamp(queue, order, t) == Append(queue, order)

\* lines 424-425
add_order(queue, order, t) == Append(queue, [order EXCEPT !.created_time = t])

\* add_order(order); the host numbers its orders 1, 2, ...
AddOrder(tpl) ==
    /\ pc = 0 /\ failure = "none"
    /\ orders_added < MaxOrders
    /\ current_time <= LastAddTime
    /\ orders_added' = orders_added + 1
    /\ \E stamp \in CarriedTimes :
          pending_orders' = add_order(pending_orders,
                                      [order_id     |-> orders_added + 1,
                                       items        |-> tpl.items,
                                       priority     |-> tpl.priority,
                                       created_time |-> stamp],
                                      current_time)
    /\ UNCHANGED <<current_time, pickers, pc, time_step, failure, contested>>
    /\ UNCHANGED unit_vars

\* assign_orders() called by the host between two ticks
AssignOrdersCall ==
    /\ pc = 0 /\ failure = "none"
    /\ LET r == assign_orders(pickers, pending_orders)
       IN  /\ pickers' = r.pickers
           /\ pending_orders' = r.pending_orders
    /\ UNCHANGED <<current_time, orders_added, pc, time_step, failure, contested>>
    /\ UNCHANGED unit_vars

\* update_simulation(time_step) is one call; its statements are taken in order
\* and nothing else runs between them.
\* line 440
BeginTick(step) ==
    /\ pc = 0 /\ failure = "none"
    /\ current_time + step <= MaxTime
    /\ time_step' = step
    /\ current_time' = current_time + step
    /\ pc' = 1
    /\ UNCHANGED <<pickers, pending_orders, orders_added, failure, contested>>
    /\ UNCHANGED unit_vars

\* the history of a picker after the update that took it from p to q: a cell
\* it starts to wait for is noted, a path step onto a noted cell is a pass, and
\* a new path that begins with the cell the picker stood on is a fallback path
Contested(h, p, q) ==
    [cells  |-> IF p.state # "WAITING" /\ q.state = "WAITING"
                THEN h.cells \cup {q.current_path[q.path_index + 1]}
                ELSE h.cells,
     passed |-> h.passed \/ (q.total_distance # p.total_distance /\ q.position \in h.cells),
     fallback |-> IF q.current_path # p.current_path
                  THEN q.current_path # <<>> /\ q.current_path[1] = p.position
                  ELSE h.fallback]

\* lines 444-447, one pass of the loop; an IndexError leaves update_simulation
UpdatePicker ==
    /\ pc \in 1..Len(pickers) /\ failure = "none"
    /\ IF PickingRaises(pickers[pc])
       THEN /\ failure' = "IndexError"
            /\ pc' = 0
            /\ time_step' = 0
            /\ UNCHANGED <<pickers, contested>>
       ELSE /\ pickers' = [pickers EXCEPT ![pc] = update(pickers[pc], pc, pickers, current_time)]
            /\ contested' = [contested EXCEPT ![pc] = Contested(@, pickers[pc], pickers'[pc])]
            /\ pc' = pc + 1
            /\ UNCHANGED <<time_step, failure>>
    /\ UNCHANGED <<current_time, pending_orders, orders_added>>
    /\ UNCHANGED unit_vars

\* line 450
EndTick ==
    /\ pc = Len(pickers) + 1 /\ failure = "none"
    /\ LET r == assign_orders(pickers, pending_orders)
       IN  /\ pickers' = r.pickers
           /\ pending_orders' = r.pending_orders
    /\ pc' = 0
    /\ time_step' = 0
    /\ UNCHANGED <<current_time, orders_added, failure, contested>>
    /\ UNCHANGED unit_vars

Next ==
    \/ \E tpl \in OrderTemplates : AddOrder(tpl)
    \/ AssignOrdersCall
    \/ \E step \in TimeSteps : BeginTick(step)
    \/ UpdatePicker
    \/ EndTick

Spec == Init /\ [][Next]_vars

\* A host that keeps calling update_simulation with a positive step, as
\* run_simulation does: a call that has started runs to its end, and the next
\* call follows.
TickStep ==
    \/ \E step \in TimeSteps \ {0} : BeginTick(step)
    \/ UpdatePicker
    \/ EndTick

NextLive ==
    \/ \E tpl \in OrderTemplates : AddOrder(tpl)
    \/ AssignOrdersCall
    \/ TickStep

\* What a TickStep does to pc and current_time.  In a behaviour of NextLive the
\* steps that satisfy TickProgress and change <<pc, current_time>> are exactly
\* the TickStep steps, and TickProgress is enabled exactly when TickStep is, so
\* weak fairness of TickProgress is weak fairness of TickStep.
TickProgress ==
    /\ failure = "none"
    /\ \/ /\ pc = 0
          /\ \E step \in TimeSteps \ {0} :
                /\ current_time + step <= MaxTime
                /\ current_time' = current_time + step
          /\ pc' = 1
       \/ /\ pc \in 1..Len(pickers)
          /\ pc' \in {0, pc + 1}
          /\ UNCHANGED current_time
       \/ /\ pc = Len(pickers) + 1
          /\ pc' = 0
          /\ UNCHANGED current_time

SpecLive == Init /\ [][NextLive]_vars /\ WF_<<pc, current_time>>(TickProgress)

\* run_simulation(duration, time_step): the host adds its orders, then lets
\* run_simulation call update_simulation until the clock reaches duration.
Durations == {0, 25, 220}

\* line 468; simulation_running is TRUE from line 466 on and never reset
KeepsRunning(duration) == current_time < duration

Running == call.op = "run_simulation" /\ call.outcome = "running"

\* lines 463-466
StartRun(duration, step) ==
    /\ pc = 0 /\ failure = "none"
    /\ ~Running
    /\ call' = [op       |-> "run_simulation",
                duration |-> duration,
                step     |-> step,
                start    |-> current_time,
                outcome  |-> "running"]
    /\ UNCHANGED sim_vars
    /\ UNCHANGED <<load_capacity, storage_cells, worker_positions>>

\* lines 468-469
RunTick ==
    /\ Running
    /\ KeepsRunning(call.duration)
    /\ BeginTick(call.step)

\* the loop is left, by its condition or by the exception of a picker update;
\* print_simulation_results divides by current_time / 60 once for each picker
\* (line 501)
RunEnd ==
    /\ Running
    /\ pc = 0
    /\ failure # "none" \/ ~KeepsRunning(call.duration)
    /\ call' = [call EXCEPT !.outcome =
                   IF failure # "none" THEN failure
                   ELSE IF current_time = 0 /\ Len(pickers) > 0 THEN "ZeroDivisionError"
                   ELSE "returned"]
    /\ UNCHANGED sim_vars
    /\ UNCHANGED <<load_capacity, storage_cells, worker_positions>>

NextRun ==
    \/ \E tpl \in OrderTemplates : call = NoCall /\ AddOrder(tpl)
    \/ call = NoCall /\ AssignOrdersCall
    \/ \E duration \in Durations, step \in TimeSteps : StartRun(duration, step)
    \/ RunTick
    \/ Running /\ UpdatePicker
    \/ Running /\ EndTick
    \/ RunEnd

SpecRun == Init /\ [][NextRun]_vars

\* What a step of a run does to pc, current_time and the outcome: weak fairness
\* of RunProgress is weak fairness of the steps of run_simulation.
RunProgress ==
    /\ Running
    /\ \/ /\ pc = 0 /\ failure = "none"
          /\ KeepsRunning(call.duration)
          /\ current_time + call.step <= MaxTime
          /\ current_time' = current_time + call.step
          /\ pc' = 1
          /\ UNCHANGED call
       \/ /\ pc \in 1..Len(pickers)
          /\ pc' \in {0, pc + 1}
          /\ UNCHANGED <<current_time, call>>
       \/ /\ pc = Len(pickers) + 1
          /\ pc' = 0
          /\ UNCHANGED <<current_time, call>>
       \/ /\ pc = 0
          /\ failure # "none" \/ ~KeepsRunning(call.duration)
          /\ \E o \in {"returned", "IndexError", "ZeroDivisionError"} :
                call' = [call EXCEPT !.outcome = o]
          /\ UNCHANGED <<pc, current_time>>

SpecRunLive == Init /\ [][NextRun]_vars /\ WF_<<pc, current_time, call>>(RunProgress)

\* Orders that leave a picker standing in the middle of the hallway: after the
\* item on (3, 6) the order of the first template goes on to a shelf item that
\* no path reaches.
SmallMid == [item_id |-> "S_MID", size |-> "SMALL", location |-> <<3, 6, 1>>, pick_time |-> 10]

CongestionTemplates ==
    { [items |-> <<SmallMid, SmallShelf>>, priority |-> 1],
      [items |-> <<SmallMid>>,             priority |-> 2],
      [items |-> <<>>,                     priority |-> 2] }

\* _replan_path(other_pickers, avoid_congestion=True) called between two ticks
\* on a picker that is under way; the behaviour ends with the new path
CallReplanPath(i) ==
    /\ call = NoCall
    /\ pc = 0 /\ failure = "none"
    /\ i \in 1..Len(pickers)
    /\ pickers[i].state \in {"MOVING_TO_ITEM", "MOVING_TO_EXIT", "WAITING"}
    /\ pickers[i].position # pickers[i].target_position
    /\ pickers' = [pickers EXCEPT ![i] = _replan_path(pickers[i], i, pickers, TRUE)]
    /\ call' = [op |-> "_replan_path", picker_index |-> i]
    /\ UNCHANGED <<current_time, pending_orders, orders_added, pc, time_step, failure,
                   contested>>
    /\ UNCHANGED <<load_capacity, storage_cells, worker_positions>>

NextCongestion ==
    \/ \E tpl \in CongestionTemplates : call = NoCall /\ AddOrder(tpl)
    \/ call = NoCall /\ AssignOrdersCall
    \/ \E step \in TimeSteps : call = NoCall /\ BeginTick(step)
    \/ call = NoCall /\ UpdatePicker
    \/ call = NoCall /\ EndTick
    \/ \E i \in 1..Len(pickers) : CallReplanPath(i)

SpecCongestion == Init /\ [][NextCongestion]_vars

\* the orders a host hands to a picker directly
AssignProbes ==
    { [items |-> <<LargeHall, SmallHall>>, priority |-> 3],
      [items |-> <<>>,                     priority |-> 2] }

\* picker.assign_order(order) called by the host between two ticks, on a
\* picker in whatever state the simulation has brought it to; the behaviour
\* ends with the answer
CallAssignOrder(i, tpl) ==
    /\ call = NoCall
    /\ pc = 0 /\ failure = "none"
    /\ i \in 1..Len(pickers)
    /\ LET order == [order_id     |-> orders_added + 1,
                     items        |-> tpl.items,
                     priority     |-> tpl.priority,
                     created_time |-> current_time]
       IN  /\ pickers' = [pickers EXCEPT ![i] = assign_order(pickers[i], order)]
           /\ call' = [op           |-> "assign_order",
                       picker_index |-> i,
                       order        |-> order,
                       ok           |-> AssignAccepts(pickers[i])]
    /\ UNCHANGED <<current_time, pending_orders, orders_added, pc, time_step, failure,
                   contested>>
    /\ UNCHANGED <<load_capacity, storage_cells, worker_positions>>

NextAssign ==
    \/ call = NoCall /\ Next
    \/ \E i \in 1..Len(pickers), tpl \in AssignProbes : CallAssignOrder(i, tpl)

SpecAssign == Init /\ [][NextAssign]_vars

\* the objects used on their own, next to a manager that is left alone
InitUnit == Init /\ Len(pickers) = 1

(***************************************************************************)
(* A LoadCapacity used on its own: the calls a picker makes on its load.   *)
(***************************************************************************)
\* LoadCapacity()
CallNewLoad ==
    /\ load_capacity' = EmptyLoad
    /\ call' = [op |-> "LoadCapacity"]
    /\ UNCHANGED <<storage_cells, worker_positions>>
    /\ UNCHANGED sim_vars

CallCanCarry(item) ==
    /\ call' = [op |-> "can_carry", order_item |-> item, ok |-> can_carry(load_capacity, item)]
    /\ UNCHANGED <<load_capacity, storage_cells, worker_positions>>
    /\ UNCHANGED sim_vars

CallAddItem(item) ==
    /\ load_capacity' = add_item(load_capacity, item)
    /\ call' = [op |-> "add_item", order_item |-> item,
                 ok |-> add_item_returns(load_capacity, item)]
    /\ UNCHANGED <<storage_cells, worker_positions>>
    /\ UNCHANGED sim_vars

NextLoad ==
    \/ CallNewLoad
    \/ \E item \in LoadItems : CallCanCarry(item)
    \/ \E item \in LoadItems : CallAddItem(item)

SpecLoad == InitUnit /\ [][NextLoad]_vars

(***************************************************************************)
(* The storage of a LargeWarehouse used on its own.                        *)
(***************************************************************************)
RECURSIVE SumLen(_, _)
SumLen(cells, keys) ==
    IF keys = {} THEN 0
    ELSE LET k == CHOOSE a \in keys : TRUE
         IN  Len(cells[k].current_items) + SumLen(cells, keys \ {k})

TotalStored(cells) == SumLen(cells, DOMAIN cells)

CallPlaceItem(item, k) ==
    /\ LET r == place_item(storage_cells, item, k)
       IN  /\ TotalStored(r.storage_cells) <= MaxStored
           /\ storage_cells' = r.storage_cells
           /\ call' = [op |-> "place_item", item |-> item, key |-> k, ok |-> r.ret]
    /\ UNCHANGED <<load_capacity, worker_positions>>
    /\ UNCHANGED sim_vars

\* get_storage_cell(x, y, level).add_item(item)
CallCellAddItem(item, k) ==
    /\ HasStorageCell(storage_cells, k)
    /\ LET r == cell_add_item(storage_cells[k], item)
       IN  /\ storage_cells' = [storage_cells EXCEPT ![k] = r.cell]
           /\ TotalStored(storage_cells') <= MaxStored
           /\ call' = [op |-> "cell.add_item", item |-> item, key |-> k, ok |-> r.ret]
    /\ UNCHANGED <<load_capacity, worker_positions>>
    /\ UNCHANGED sim_vars

CallRemoveItem(item_id, k) ==
    /\ LET r == remove_item(storage_cells, item_id, k)
       IN  /\ storage_cells' = r.storage_cells
           /\ call' = [op |-> "remove_item", item_id |-> item_id, key |-> k, removed |-> r.ret]
    /\ UNCHANGED <<load_capacity, worker_positions>>
    /\ UNCHANGED sim_vars

CallFindItem(item_id) ==
    /\ call' = [op |-> "find_item", item_id |-> item_id,
                 found |-> find_item(storage_cells, item_id)]
    /\ UNCHANGED <<load_capacity, storage_cells, worker_positions>>
    /\ UNCHANGED sim_vars

NextStorage ==
    \/ \E item \in StoredItems, k \in UsedKeys \cup OtherKeys : CallPlaceItem(item, k)
    \/ \E item \in StoredItems, k \in UsedKeys : CallCellAddItem(item, k)
    \/ \E item_id \in ItemIds, k \in UsedKeys \cup OtherKeys : CallRemoveItem(item_id, k)
    \/ \E item_id \in ItemIds : CallFindItem(item_id)

SpecStorage == InitUnit /\ [][NextStorage]_vars

(***************************************************************************)
(* The workers of a LargeWarehouse used on its own.                        *)
(***************************************************************************)
CallPlaceWorker(pos, worker_id) ==
    /\ LET r == place_worker(worker_positions, pos[1], pos[2], worker_id)
       IN  /\ worker_positions' = r.worker_positions
           /\ call' = [op |-> "place_worker", pos |-> pos, worker_id |-> worker_id, ok |-> r.ret]
    /\ UNCHANGED <<load_capacity, storage_cells>>
    /\ UNCHANGED sim_vars

CallRemoveWorker(worker_id) ==
    /\ LET r == remove_worker(worker_positions, worker_id)
       IN  /\ worker_positions' = r.worker_positions
           /\ call' = [op |-> "remove_worker", worker_id |-> worker_id, freed |-> r.ret]
    /\ UNCHANGED <<load_capacity, storage_cells>>
    /\ UNCHANGED sim_vars

NextWorkers ==
    \/ \E pos \in WorkerProbes, worker_id \in WorkerIds : CallPlaceWorker(pos, worker_id)
    \/ \E worker_id \in WorkerIds : CallRemoveWorker(worker_id)

SpecWorkers == InitUnit /\ [][NextWorkers]_vars

(***************************************************************************)
(* The grid and the path planner asked one question.                       *)
(***************************************************************************)
CallGetCellType(pos) ==
    /\ call = NoCall
    /\ call' = [op |-> "get_cell_type", pos |-> pos, cell_type |-> get_cell_type(pos[1], pos[2])]
    /\ UNCHANGED <<load_capacity, storage_cells, worker_positions>>
    /\ UNCHANGED sim_vars

CallIsWalkable(pos) ==
    /\ call = NoCall
    /\ call' = [op |-> "is_walkable", pos |-> pos, ok |-> is_walkable(pos[1], pos[2])]
    /\ UNCHANGED <<load_capacity, storage_cells, worker_positions>>
    /\ UNCHANGED sim_vars

CallGetAccessibleNeighbors(pos) ==
    /\ call = NoCall
    /\ call' = [op |-> "get_accessible_neighbors", pos |-> pos,
                 cells |-> get_accessible_neighbors(pos[1], pos[2])]
    /\ UNCHANGED <<load_capacity, storage_cells, worker_positions>>
    /\ UNCHANGED sim_vars

CallFindPath(start, goal, blocked) ==
    /\ call = NoCall
    /\ call' = [op |-> "find_path", start |-> start, goal |-> goal, blocked |-> blocked,
                 path |-> find_path(start, goal, blocked)]
    /\ UNCHANGED <<load_capacity, storage_cells, worker_positions>>
    /\ UNCHANGED sim_vars

NextGrid ==
    \/ \E pos \in GridProbes : CallGetCellType(pos)
    \/ \E pos \in GridProbes : CallIsWalkable(pos)
    \/ \E pos \in GridProbes : CallGetAccessibleNeighbors(pos)
    \/ \E start \in PathCells, goal \in PathCells, blocked \in BlockedSets :
          CallFindPath(start, goal, blocked)

SpecGrid == InitUnit /\ [][NextGrid]_vars

TypeOK ==
    /\ current_time \in 0..MaxTime
    /\ pc \in 0..(Len(pickers) + 1)
    /\ failure \in {"none", "IndexError"}
    /\ \A i \in 1..Len(pickers) : pickers[i].state \in PickerState

(***************************************************************************)
(* Properties                                                              *)
(***************************************************************************)
PickerIds == 1..Len(pickers)

\* between two update_simulation calls
AtTickBoundary == pc = 0

\* C1: with two or more pickers, at every tick boundary from construction on,
\* no two distinct pickers occupy the same grid cell.
C1_NoSharedCell ==
    (AtTickBoundary /\ Len(pickers) >= 2) =>
        \A i, j \in PickerIds : i # j => pickers[i].position # pickers[j].position

\* C3: whenever orders_completed of a picker is incremented, its item cursor
\* equals the number of items of the order it held: no order is cleared or
\* counted while one of its items is still unpicked.
C3_NoItemDropped ==
    [][\A i \in PickerIds :
          pickers'[i].orders_completed > pickers[i].orders_completed =>
              pickers[i].current_item_index = Len(pickers[i].current_order.items)]_vars

\* C5: no tick raises, and a picker in Picking holds an order and its item
\* cursor is a valid index into that order's items.
C5_PickingIndexValid ==
    /\ failure = "none"
    /\ \A i \in PickerIds :
          pickers[i].state = "PICKING" =>
              /\ pickers[i].current_order # NoOrder
              /\ pickers[i].current_item_index < Len(pickers[i].current_order.items)

\* position, state and statistics of a picker
Observed(p) ==
    <<p.position, p.state, p.total_distance, p.orders_completed,
      p.total_wait_time, p.total_pick_time>>

\* C6: a step of update_simulation(0) started with no pending orders leaves
\* every picker's position, state and statistics unchanged.
C6_ZeroStepIsNoOp ==
    [][(pc # 0 /\ time_step = 0 /\ pending_orders = <<>>) =>
          \A i \in PickerIds : Observed(pickers'[i]) = Observed(pickers[i])]_vars

\* an order of exactly one small item whose location is a shelf cell
OneSmallShelfItem(order) ==
    /\ Len(order.items) = 1
    /\ order.items[1].size = "SMALL"
    /\ get_cell_type(order.items[1].location[1], order.items[1].location[2]) = "SHELF"

ScenarioAStart ==
    /\ Len(pickers) = 1
    /\ orders_added = 1
    /\ Len(pending_orders) = 1
    /\ OneSmallShelfItem(pending_orders[1])

ScenarioADone ==
    /\ pickers[1].orders_completed = 1
    /\ pickers[1].load = EmptyLoad
    /\ pickers[1].position = entrances[1]

\* C2: scenario A: with a single picker and one enqueued order of one small item
\* stored at a shelf location, repeated ticks with a positive step eventually
\* reach orders_completed = 1 with an empty load and the picker at the entrance.
C2_ScenarioA == ScenarioAStart ~> ScenarioADone

\* the same scenario with the item at a walkable cell of the hallway
ScenarioAWalkableStart ==
    /\ Len(pickers) = 1
    /\ orders_added = 1
    /\ Len(pending_orders) = 1
    /\ pending_orders[1].items = <<SmallHall>>

ScenarioAWalkable == ScenarioAWalkableStart ~> ScenarioADone

MaxPickerCount == CHOOSE n \in PickerCounts : \A m \in PickerCounts : m <= n
AllPickerIds == 1..MaxPickerCount

\* every item of the order lies on a walkable cell that a path from the entrance reaches
TargetsReachable(order) ==
    \A k \in 1..Len(order.items) :
        LET loc == order.items[k].location
        IN  /\ is_walkable(loc[1], loc[2])
            /\ find_path(entrances[1], <<loc[1], loc[2]>>, {}) # <<>>

HoldsReachableOrder(i) ==
    /\ Len(pickers) >= 2
    /\ i <= Len(pickers)
    /\ pickers[i].current_order # NoOrder
    /\ TargetsReachable(pickers[i].current_order)

\* C4: with two or more pickers and positive tick steps, every picker holding
\* an order whose targets are walkable and reachable eventually returns to Idle.
C4_NoDeadlock ==
    \A i \in AllPickerIds :
        HoldsReachableOrder(i) ~> (i <= Len(pickers) /\ pickers[i].state = "IDLE")

\* a step that runs assign_orders: the end of a tick, or the host's own call
AssignStep ==
    \/ pc = Len(pickers) + 1 /\ pc' = 0
    \/ pc = 0 /\ pc' = 0 /\ orders_added' = orders_added

IdleIds == {i \in PickerIds : pickers[i].state = "IDLE"}

\* the k-th Idle picker in list order
KthIdle(k) == CHOOSE i \in IdleIds : Cardinality({j \in IdleIds : j <= i}) = k

NumAssigned == Min(Cardinality(IdleIds), Len(pending_orders))

\* orders are numbered as they are enqueued: what is still pending was enqueued
\* after everything a picker holds, and the queue is in enqueueing order
HeldBeforePending ==
    /\ \A i \in PickerIds : \A k \in 1..Len(pending_orders) :
          pickers[i].current_order.order_id < pending_orders[k].order_id
    /\ \A k, l \in 1..Len(pending_orders) :
          k < l => pending_orders[k].order_id < pending_orders[l].order_id

\* C7: one assign_orders call assigns exactly min(#Idle, #pending) orders, the
\* k-th earliest pending order to the k-th Idle picker in list order, whatever
\* the priorities; so orders are assigned in the order they were enqueued.
C7_FifoAssignment ==
    /\ [][AssignStep =>
            /\ pending_orders' = SubSeq(pending_orders, NumAssigned + 1, Len(pending_orders))
            /\ \A k \in 1..NumAssigned :
                  pickers'[KthIdle(k)].current_order = pending_orders[k]
            /\ \A i \in PickerIds \ {KthIdle(k) : k \in 1..NumAssigned} :
                  pickers'[i] = pickers[i]]_vars
    /\ []HeldBeforePending

\* both pickers were handed an order in one call, the more urgent order 2 going
\* to the second picker
C7_Witness ==
    /\ Len(pickers) = 2
    /\ pickers[1].current_order.order_id = 1
    /\ pickers[2].current_order.order_id = 2
    /\ pickers[2].current_order.priority > pickers[1].current_order.priority
    /\ pickers[1].current_order.created_time = pickers[2].current_order.created_time

Received(i) == pickers[i].current_order = NoOrder /\ pickers'[i].current_order # NoOrder

\* C8: the pending queue keeps its order; it gets shorter only in a step that
\* runs assign_orders, and then by exactly the number of pickers that received
\* an order.
C8_QueueShrinksOnlyByAssignment ==
    [][/\ Len(pending_orders') < Len(pending_orders) =>
            /\ AssignStep
            /\ Len(pending_orders) - Len(pending_orders') =
                   Cardinality({i \in PickerIds : Received(i)})
            /\ pending_orders' = SubSeq(pending_orders,
                                        Len(pending_orders) - Len(pending_orders') + 1,
                                        Len(pending_orders))
       /\ Len(pending_orders') >= Len(pending_orders) =>
            SubSeq(pending_orders', 1, Len(pending_orders)) = pending_orders]_vars

\* the only picker is busy with order 1 while order 2 has been waiting over ticks
C8_Witness ==
    /\ AtTickBoundary
    /\ IdleIds = {}
    /\ \E i \in PickerIds : pickers[i].current_order.order_id = 1
    /\ Len(pending_orders) = 1
    /\ pending_orders[1].order_id = 2
    /\ current_time >= pending_orders[1].created_time + 20

\* C9: assign_orders with no Idle picker or with an empty queue raises nothing
\* and leaves the queue and every picker unchanged.
C9_AssignIsNoOp ==
    [][(AssignStep /\ (IdleIds = {} \/ pending_orders = <<>>)) =>
          /\ pickers' = pickers
          /\ pending_orders' = pending_orders
          /\ failure' = "none"]_vars

\* a picker has come back Idle and the tick ended on an empty queue
C9_Witness ==
    /\ AtTickBoundary
    /\ pending_orders = <<>>
    /\ \E i \in IdleIds : pickers[i].orders_completed >= 1

UnitCost(size) == CASE size = "SMALL" -> 1 [] size = "MEDIUM" -> 2 [] size = "LARGE" -> 4

RECURSIVE SumUnitCosts(_)
SumUnitCosts(items) ==
    IF items = <<>> THEN 0 ELSE UnitCost(Head(items).size) + SumUnitCosts(Tail(items))

C11_AddItemContract ==
    [][LET item == call'.order_item
           fits == load_capacity.load_points + UnitCost(item.size) <= 4
       IN  /\ call'.op = "can_carry" => call'.ok = fits
           /\ call'.op = "add_item" =>
                 IF fits
                 THEN /\ call'.ok = TRUE
                      /\ load_capacity'.items_carried = Append(load_capacity.items_carried, item)
                      /\ load_capacity'.load_points =
                             load_capacity.load_points + UnitCost(item.size)
                 ELSE /\ call'.ok = FALSE
                      /\ load_capacity'.items_carried = load_capacity.items_carried
                      /\ load_capacity'.load_points = load_capacity.load_points]_vars

\* a medium item was refused by a load that carries three points
C11_Witness ==
    /\ call.op = "add_item" /\ call.ok = FALSE
    /\ call.order_item.size = "MEDIUM"
    /\ load_capacity.load_points = 3

\* the units stored in the cell of key k
StoredUnits(cells, k) == SumUnitCosts(cells[k].current_items)

\* the call adds an item to a storage cell
IsAddCall(c) == c.op \in {"place_item", "cell.add_item"}

\* C12: after any sequence of add_item, place_item and remove_item calls the
\* unit costs of the items of every storage cell sum to at most 4, and an add
\* that would exceed 4 returns false and leaves the cell unchanged.
C12_StorageCapacity ==
    /\ [](\A k \in StorageKeys : StoredUnits(storage_cells, k) <= 4)
    /\ [][(/\ IsAddCall(call')
           /\ call'.key \in StorageKeys
           /\ StoredUnits(storage_cells, call'.key) + UnitCost(call'.item.size) > 4)
          => /\ call'.ok = FALSE
             /\ storage_cells'[call'.key] = storage_cells[call'.key]]_vars

\* a fifth small item was refused by a first-level cell that holds four
C12_Witness ==
    /\ call.op = "place_item" /\ call.ok = FALSE
    /\ call.item.size = "SMALL"
    /\ call.key \in StorageKeys
    /\ call.key[3] = 1
    /\ Len(storage_cells[call.key].current_items) = 4

\* C13: no heavy item is ever stored above level 1 and no medium-weight item
\* above level 2; a light item is accepted at any level and any item at level
\* 1, when the capacity permits.
C13_WeightPolicy ==
    /\ [](\A k \in StorageKeys :
            \A i \in 1..Len(storage_cells[k].current_items) :
               LET w == storage_cells[k].current_items[i].weight_class
               IN  /\ w = "HEAVY" => k[3] <= 1
                   /\ w = "MEDIUM" => k[3] <= 2)
    /\ [][(/\ IsAddCall(call')
           /\ call'.key \in StorageKeys
           /\ StoredUnits(storage_cells, call'.key) + UnitCost(call'.item.size) <= 4
           /\ (call'.item.weight_class = "LIGHT" \/ call'.key[3] = 1))
          => /\ call'.ok = TRUE
             /\ storage_cells'[call'.key].current_items =
                    Append(storage_cells[call'.key].current_items, call'.item)]_vars

\* a heavy item was refused by an empty cell of level 2 while a light item
\* is stored at level 3
C13_Witness ==
    /\ call.op = "place_item" /\ call.ok = FALSE
    /\ call.item.weight_class = "HEAVY"
    /\ call.key \in StorageKeys
    /\ call.key[3] = 2
    /\ storage_cells[call.key].current_items = <<>>
    /\ \E k \in StorageKeys :
          /\ k[3] = 3
          /\ \E i \in 1..Len(storage_cells[k].current_items) :
                storage_cells[k].current_items[i].weight_class = "LIGHT"

\* place_item(item, x, y, level) returned true
PlacedOk(c) == c.op = "place_item" /\ c.ok = TRUE

\* the call is remove_item(item.id, x, y, level) for the item and the location
\* of the place_item call c
RemovesPlaced(r, c) == r.op = "remove_item" /\ r.item_id = c.item.id /\ r.key = c.key

\* what find_item returns for an item at a location
FoundAt(k, item) == <<k[1], k[2], k[3], item>>

\* the number of stored items that have this id
RECURSIVE CountIdIn(_, _, _)
CountIdIn(cells, keys, item_id) ==
    IF keys = {} THEN 0
    ELSE LET k == CHOOSE a \in keys : TRUE
         IN  Cardinality({i \in 1..Len(cells[k].current_items) :
                             cells[k].current_items[i].id = item_id})
             + CountIdIn(cells, keys \ {k}, item_id)

CountId(cells, item_id) == CountIdIn(cells, DOMAIN cells, item_id)

\* C14: after place_item(item, x, y, level) succeeds, find_item(item.id)
\* returns (x, y, level, item); remove_item(item.id, x, y, level) then returns
\* the item and find_item(item.id) returns None afterwards; place_item on a
\* location without a storage cell returns false.
C14_RoundTrip ==
    [][/\ PlacedOk(call') =>
             find_item(storage_cells', call'.item.id) = FoundAt(call'.key, call'.item)
       /\ (PlacedOk(call) /\ RemovesPlaced(call', call))
          => /\ call'.removed = call.item
             /\ find_item(storage_cells', call.item.id) = None
       /\ (call'.op = "place_item" /\ call'.key \notin StorageKeys)
          => /\ call'.ok = FALSE
             /\ storage_cells' = storage_cells]_vars

\* C14, amended: the same round trip for an item whose id no stored item has
\* when it is placed.
C14_RoundTripFreshId ==
    [][/\ (PlacedOk(call') /\ CountId(storage_cells, call'.item.id) = 0) =>
             find_item(storage_cells', call'.item.id) = FoundAt(call'.key, call'.item)
       /\ (/\ PlacedOk(call)
           /\ CountId(storage_cells, call.item.id) = 1
           /\ RemovesPlaced(call', call))
          => /\ call'.removed = call.item
             /\ find_item(storage_cells', call.item.id) = None
       /\ (call'.op = "place_item" /\ call'.key \notin StorageKeys)
          => /\ call'.ok = FALSE
             /\ storage_cells' = storage_cells]_vars

\* the only stored item of its id was removed from a storage that holds
\* other items, and is not found any more
C14_Witness ==
    /\ call.op = "remove_item"
    /\ call.removed = SmallLight
    /\ find_item(storage_cells, call.item_id) = None
    /\ TotalStored(storage_cells) > 0

\* the entries of worker_positions
Entries(workers) == {workers[i] : i \in 1..Len(workers)}

\* C15: place_worker succeeds only on a walkable cell that holds no worker; on
\* an occupied cell it returns false and leaves worker_positions unchanged;
\* remove_worker(id) returns the cell the worker was placed on and frees it.
C15_WorkerPlacement ==
    /\ [](\A i, j \in 1..Len(worker_positions) :
            /\ is_walkable(worker_positions[i][1][1], worker_positions[i][1][2])
            /\ worker_positions[i][1] = worker_positions[j][1] => i = j)
    /\ [][/\ call'.op = "place_worker" =>
                LET free == /\ is_walkable(call'.pos[1], call'.pos[2])
                            /\ \A e \in Entries(worker_positions) : e[1] # call'.pos
                IN  /\ call'.ok = free
                    /\ Entries(worker_positions') =
                          IF free
                          THEN Entries(worker_positions) \cup {<<call'.pos, call'.worker_id>>}
                          ELSE Entries(worker_positions)
          /\ call'.op = "remove_worker" =>
                IF \E e \in Entries(worker_positions) : e[2] = call'.worker_id
                THEN /\ <<call'.freed, call'.worker_id>> \in Entries(worker_positions)
                     /\ Entries(worker_positions') =
                           Entries(worker_positions) \ {<<call'.freed, call'.worker_id>>}
                     /\ \A e \in Entries(worker_positions') : e[1] # call'.freed
                ELSE /\ call'.freed = None
                     /\ worker_positions' = worker_positions]_vars

\* a second worker was refused on a walkable cell that another worker holds
C15_Witness ==
    /\ call.op = "place_worker" /\ call.ok = FALSE
    /\ is_walkable(call.pos[1], call.pos[2])
    /\ \E e \in Entries(worker_positions) : e[1] = call.pos /\ e[2] # call.worker_id

\* the coordinate lies on the grid
InBounds(pos) == pos[1] \in 0..(Width - 1) /\ pos[2] \in 0..(Depth - 1)

\* the cell types a worker can walk on
WalkableTypes == {"AISLE", "MAIN_HALLWAY", "CROSS_AISLE", "ENTRANCE", "EXIT"}

\* the cell is a walkable cell of the floor plan
Floor(pos) == InBounds(pos) /\ layout_grid[pos] \in WalkableTypes

\* the number of moves between two cells on a grid without obstacles
Manhattan(a, b) == Abs(a[1] - b[1]) + Abs(a[2] - b[2])

\* C16: for all integer coordinates, negative and out-of-range ones included,
\* is_walkable is true exactly when the cell type is AISLE, MAIN_HALLWAY,
\* CROSS_AISLE, ENTRANCE or EXIT; get_cell_type gives WALL outside the grid;
\* every cell get_accessible_neighbors returns is walkable and 4-adjacent.
C16_Walkable ==
    /\ call.op = "is_walkable" =>
          /\ call.ok = (get_cell_type(call.pos[1], call.pos[2]) \in WalkableTypes)
          /\ call.ok = Floor(call.pos)
    /\ call.op = "get_cell_type" =>
          /\ call.cell_type \in CellType
          /\ ~InBounds(call.pos) => call.cell_type = "WALL"
    /\ call.op = "get_accessible_neighbors" =>
          \A i \in 1..Len(call.cells) :
             /\ Floor(call.cells[i])
             /\ is_walkable(call.cells[i][1], call.cells[i][2])
             /\ Manhattan(call.cells[i], call.pos) = 1

\* the neighbours of a cell left of the grid are asked for: the entrance
C16_Witness ==
    /\ call.op = "get_accessible_neighbors"
    /\ call.pos[1] = -1
    /\ call.cells = <<entrances[1]>>

\* C17: every non-empty path find_path returns starts at start, ends at goal,
\* has each consecutive pair of cells 4-adjacent, and every cell after the
\* first is walkable and not blocked.
C17_PathValid ==
    (call.op = "find_path" /\ call.path # <<>>) =>
       /\ call.path[1] = call.start
       /\ call.path[Len(call.path)] = call.goal
       /\ \A i \in 2..Len(call.path) :
             /\ Manhattan(call.path[i - 1], call.path[i]) = 1
             /\ Floor(call.path[i])
             /\ call.path[i] \notin call.blocked

\* a path from a wall cell that goes around blocked cells
C17_Witness ==
    /\ call.op = "find_path"
    /\ ~Floor(call.start)
    /\ call.blocked # {}
    /\ Len(call.path) > Manhattan(call.start, call.goal) + 1

\* the reference: breadth-first search over the walkable, non-blocked cells;
\* the number of moves of a shortest path, -1 if there is none
RECURSIVE BfsFrom(_, _, _, _, _)
BfsFrom(frontier, seen, goal, blocked, d) ==
    IF goal \in frontier THEN d
    ELSE LET next == {n \in GridProbes :
                         /\ Floor(n) /\ n \notin blocked /\ n \notin seen
                         /\ \E c \in frontier : Manhattan(c, n) = 1}
         IN  IF next = {} THEN -1
             ELSE BfsFrom(next, seen \cup next, goal, blocked, d + 1)

BfsMoves(start, goal, blocked) == BfsFrom({start}, {start}, goal, blocked, 0)

\* every cell of the rectangle two cells span is walkable
ObstacleFree(a, b) ==
    \A x \in (IF a[1] < b[1] THEN a[1] ELSE b[1])..(IF a[1] < b[1] THEN b[1] ELSE a[1]) :
       \A y \in (IF a[2] < b[2] THEN a[2] ELSE b[2])..(IF a[2] < b[2] THEN b[2] ELSE a[2]) :
          Floor(<<x, y>>)

\* C18: a non-empty path find_path returns has the least number of moves
\* among the 4-connected paths from start to goal through walkable,
\* non-blocked cells, as breadth-first search finds it; with no blocked cell
\* and no obstacle between start and goal that number is their Manhattan
\* distance.
C18_PathOptimal ==
    (call.op = "find_path" /\ call.path # <<>>) =>
       /\ Len(call.path) - 1 = BfsMoves(call.start, call.goal, call.blocked)
       /\ (call.blocked = {} /\ ObstacleFree(call.start, call.goal)) =>
             Len(call.path) - 1 = Manhattan(call.start, call.goal)

\* a shortest path that is longer than the Manhattan distance, around
\* blocked cells
C18_Witness ==
    /\ call.op = "find_path"
    /\ call.blocked # {}
    /\ Floor(call.start)
    /\ Len(call.path) - 1 > Manhattan(call.start, call.goal)
    /\ Len(call.path) - 1 = BfsMoves(call.start, call.goal, call.blocked)

\* C19: find_path(p, p, blocked) returns exactly [p], for every cell p and
\* every blocked set.
C19_PathToSelf ==
    (call.op = "find_path" /\ call.start = call.goal) => call.path = <<call.start>>

\* the path from a blocked cell to itself
C19_Witness ==
    /\ call.op = "find_path"
    /\ call.start = call.goal
    /\ call.start \in call.blocked
    /\ call.path = <<call.start>>

\* no walkable path leads from the picker's position to its target
Unreachable(p) ==
    /\ p.target_position # None
    /\ BfsMoves(p.position, p.target_position, {}) = -1

\* C20: when no walkable path leads from a moving picker's position to its
\* target, the picker's update leaves its position, its moving state and
\* its total_distance unchanged and its path empty, so that it plans again on
\* the next tick, and the tick goes on to the next picker without an error.
C20_UnreachableAbsorbed ==
    [][(/\ pc \in PickerIds
        /\ pickers[pc].state \in {"MOVING_TO_ITEM", "MOVING_TO_EXIT"}
        /\ Unreachable(pickers[pc])
        /\ pc' # pc)
       => /\ pickers'[pc].position = pickers[pc].position
          /\ pickers'[pc].state = pickers[pc].state
          /\ pickers'[pc].total_distance = pickers[pc].total_distance
          /\ pickers'[pc].target_position = pickers[pc].target_position
          /\ pickers'[pc].current_path = <<>>
          /\ failure' = "none"
          /\ pc' = pc + 1]_vars

\* a picker that has walked into the hallway holds still before a shelf it
\* cannot reach, ten seconds on, while another picker has finished an order
C20_Witness ==
    /\ pc = 0
    /\ current_time >= 100
    /\ \E i, j \in PickerIds :
          /\ i # j
          /\ pickers[i].state = "MOVING_TO_ITEM"
          /\ Unreachable(pickers[i])
          /\ pickers[i].total_distance > 0
          /\ pickers[i].current_path = <<>>
          /\ pickers[j].orders_completed > 0

\* the largest step of a tick
MaxStep == CHOOSE a \in TimeSteps : \A b \in TimeSteps : b <= a

\* the cell picker i steps on next is held by another picker
Obstructed(i) ==
    /\ pickers[i].path_index < Len(pickers[i].current_path)
    /\ \E j \in PickerIds \ {i} :
          pickers[j].position = pickers[i].current_path[pickers[i].path_index + 1]

\* C21: a picker leaves Waiting at the first tick at which its next cell is
\* not obstructed any more or more than 5 time-units have passed since it
\* entered Waiting, so that no stay in Waiting lasts longer than 5 time-units
\* plus one tick step.
C21_WaitingBounded ==
    /\ [](\A i \in PickerIds :
            pickers[i].state = "WAITING" =>
               /\ current_time - pickers[i].wait_start_time <= 50 + MaxStep
               /\ (pc = 0 \/ pc > i) => current_time - pickers[i].wait_start_time <= 50)
    /\ [][(/\ pc \in PickerIds
           /\ pc' # pc
           /\ pickers[pc].state = "WAITING"
           /\ (~Obstructed(pc) \/ current_time - pickers[pc].wait_start_time > 50))
          => pickers'[pc].state # "WAITING"]_vars

\* a picker whose next cell is still held has been in Waiting for 5
\* time-units and one step: the tick under way ends its stay
C21_Witness ==
    \E i \in PickerIds :
       /\ pickers[i].state = "WAITING"
       /\ Obstructed(i)
       /\ pc = i
       /\ current_time - pickers[i].wait_start_time = 50 + MaxStep

\* what one step of a tick does
TickStepOrder ==
    /\ (pc = 0 /\ pc' # 0) =>
         /\ pc' = 1
         /\ current_time' = current_time + time_step'
         /\ UNCHANGED <<pickers, pending_orders>>
    /\ (pc \in PickerIds /\ pc' # pc) =>
         /\ pc' = pc + 1
         /\ \A j \in PickerIds \ {pc} : pickers'[j] = pickers[j]
         /\ UNCHANGED <<current_time, pending_orders>>
    /\ (pc = Len(pickers) + 1 /\ pc' # pc) =>
         /\ pc' = 0
         /\ current_time' = current_time
         /\ pending_orders' = SubSeq(pending_orders, NumAssigned + 1, Len(pending_orders))
         /\ \A k \in 1..NumAssigned :
               /\ pickers'[KthIdle(k)].current_order = pending_orders[k]
               /\ pickers'[KthIdle(k)].state # "IDLE"
               /\ pickers'[KthIdle(k)].position = pickers[KthIdle(k)].position
               /\ pickers'[KthIdle(k)].total_distance = pickers[KthIdle(k)].total_distance
               /\ pickers'[KthIdle(k)].load = EmptyLoad

\* C22: a tick advances the clock by its step, then updates every picker once
\* in list order, then runs assign_orders; a picker that is Idle when the
\* pickers have been updated is handed its pending order at the end of that
\* tick, without having moved or acted on it.
C22_TickOrder == [][TickStepOrder]_vars

\* the same, for the ticks in which no picker update raises
C22_TickOrderUnlessRaised ==
    [][failure' = "none" => TickStepOrder]_vars

RunEnded == call.op = "run_simulation" /\ call.outcome # "running"

\* C23: run_simulation(duration, step) with step > 0 performs no tick once the
\* clock is at or past duration, ends with duration <= clock < duration + step
\* if it performed a tick, and never turns the clock back.
C23_RunSimulation ==
    /\ [](RunEnded /\ call.step > 0 /\ call.start < call.duration =>
             /\ call.duration <= current_time
             /\ current_time < call.duration + call.step)
    /\ [][/\ (Running /\ pc = 0 /\ current_time >= call.duration) =>
                (pc' = 0 /\ current_time' = current_time)
          /\ current_time' >= current_time]_vars

\* the same for the runs that no picker update leaves by an exception
C23_RunSimulationUnlessRaised ==
    /\ [](RunEnded /\ call.step > 0 /\ call.start < call.duration /\ failure = "none" =>
             /\ call.duration <= current_time
             /\ current_time < call.duration + call.step)
    /\ [][/\ (Running /\ pc = 0 /\ current_time >= call.duration) =>
                (pc' = 0 /\ current_time' = current_time)
          /\ current_time' >= current_time]_vars

\* a run with a positive step ends, by returning or by raising
C23_RunTerminates == (Running /\ call.step > 0) ~> RunEnded

\* a run that ended past a duration that is no multiple of the step
C23_ReturnedWitness ==
    /\ RunEnded
    /\ call.outcome = "returned"
    /\ call.step > 0
    /\ call.duration < current_time
    /\ call.start < call.duration

\* the cells a 4-connected path of walkable cells reaches from the frontier
RECURSIVE Closure(_, _)
Closure(frontier, seen) ==
    LET next == {n \in (0..(Width - 1)) \X (0..(Depth - 1)) :
                    /\ Floor(n) /\ n \notin seen
                    /\ \E c \in frontier : Manhattan(c, n) = 1}
    IN  IF next = {} THEN seen ELSE Closure(next, seen \cup next)

ConnectedTo(start) == Closure({start}, {start})

\* the walkable cells that no path of walkable cells joins to the first entrance
CutOffCells ==
    {c \in (0..(Width - 1)) \X (0..(Depth - 1)) :
        Floor(c) /\ c \notin ConnectedTo(entrances[1])}

\* C24: in the warehouse LargeWarehouse builds, the entrances and the exit are
\* walkable, and every cell that is_walkable reports walkable is joined to the
\* first entrance and to the exit by a 4-connected path of walkable cells.
C24_FloorConnected ==
    /\ \A k \in 1..Len(entrances) : Floor(entrances[k])
    /\ Floor(exit)
    /\ (call.op = "is_walkable" /\ call.ok) =>
          /\ call.pos \in ConnectedTo(entrances[1])
          /\ call.pos \in ConnectedTo(exit)

\* what does hold: entrances and exit are walkable and joined to each other
\* and to every cell of the main hallway
C24_HallwayConnected ==
    /\ \A k \in 1..Len(entrances) : Floor(entrances[k])
    /\ Floor(exit)
    /\ exit \in ConnectedTo(entrances[1])
    /\ \A c \in (0..(Width - 1)) \X (0..(Depth - 1)) :
          layout_grid[c] \in {"MAIN_HALLWAY", "ENTRANCE", "EXIT"} =>
             c \in ConnectedTo(entrances[1]) /\ c \in ConnectedTo(exit)
    /\ \A c \in CutOffCells : layout_grid[c] \in {"AISLE", "CROSS_AISLE"}

\* the fields of picker i that completing an order writes
ExitFields(ps, i) ==
    <<ps[i].orders_completed, ps[i].current_order, ps[i].load,
      ps[i].current_item_index, ps[i].position, ps[i].state>>

\* C25: a picker enters Exiting on the exit and stays there, with its order,
\* load, cursor, position and counters unchanged, until 2 time-units have
\* passed since it arrived; its first update at or after that adds exactly 1 to
\* orders_completed, clears the order, empties the load, resets the cursor,
\* puts the picker on the first entrance and makes it Idle.
C25_Exiting ==
    /\ [](\A i \in PickerIds :
            pickers[i].state = "EXITING" =>
               /\ pickers[i].position = exit
               /\ pickers[i].pick_start_time <= current_time
               /\ (pc = 0 \/ pc > i) => current_time - pickers[i].pick_start_time < 20)
    /\ [][\A i \in PickerIds :
            /\ (pickers[i].state # "EXITING" /\ pickers'[i].state = "EXITING") =>
                  /\ pc = i
                  /\ pickers'[i].position = exit
                  /\ pickers'[i].pick_start_time = current_time
            /\ pickers[i].state = "EXITING" =>
                  IF pc = i /\ pc' # pc /\ current_time - pickers[i].pick_start_time >= 20
                  THEN /\ pickers'[i].orders_completed = pickers[i].orders_completed + 1
                       /\ pickers'[i].current_order = NoOrder
                       /\ pickers'[i].load = EmptyLoad
                       /\ pickers'[i].current_item_index = 0
                       /\ pickers'[i].position = entrances[1]
                       /\ pickers'[i].state = "IDLE"
                  ELSE ExitFields(pickers', i) = ExitFields(pickers, i)]_vars

\* a picker that carried an item to the exit has completed its order and is
\* back on the first entrance, Idle and empty-handed
C25_Witness ==
    \E i \in PickerIds :
       /\ pickers[i].orders_completed = 1
       /\ pickers[i].state = "IDLE"
       /\ pickers[i].position = entrances[1]
       /\ pickers[i].load = EmptyLoad
       /\ pickers[i].current_order = NoOrder
       /\ pickers[i].total_pick_time > 0
       /\ pc = i + 1

\* C26: add_order appends the order at the tail of the pending queue with
\* created_time set to the clock, whatever timestamp the order carried, and
\* changes no picker.
C26_AddOrder ==
    [][orders_added' # orders_added =>
         /\ Len(pending_orders') = Len(pending_orders) + 1
         /\ SubSeq(pending_orders', 1, Len(pending_orders)) = pending_orders
         /\ pending_orders'[Len(pending_orders')].order_id = orders_added'
         /\ pending_orders'[Len(pending_orders')].created_time = current_time
         /\ \E tpl \in OrderTemplates :
               /\ pending_orders'[Len(pending_orders')].items = tpl.items
               /\ pending_orders'[Len(pending_orders')].priority = tpl.priority
         /\ pickers' = pickers
         /\ current_time' = current_time]_vars

\* an order added after the clock had advanced, while the order added before
\* it is with a picker
C26_Witness ==
    /\ Len(pending_orders) = 1
    /\ current_time > 0
    /\ current_time \notin CarriedTimes
    /\ pending_orders[1].created_time = current_time
    /\ \E i \in PickerIds :
          /\ pickers[i].current_order # NoOrder
          /\ pickers[i].current_order.created_time < current_time

\* the kind of movement of a picker that is under way: to the exit when the
\* exit is its target (_plan_path_to_exit), to an item otherwise
MovementKind(p) == IF p.target_position = exit THEN "MOVING_TO_EXIT" ELSE "MOVING_TO_ITEM"

\* the picker stands on the (x, y) location of the item its cursor is at
AtCurrentItem(p) ==
    /\ p.current_order # NoOrder
    /\ p.current_item_index < Len(p.current_order.items)
    /\ p.position = <<p.current_order.items[p.current_item_index + 1].location[1],
                      p.current_order.items[p.current_item_index + 1].location[2]>>

\* C27: a picker leaves Waiting in the kind of movement it entered it from,
\* when the obstruction clears and on timeout alike; a picker whose target is
\* the exit enters Exiting when it arrives and never Picking, and a picker
\* enters Picking only on the (x, y) location of its current order item.
C27_WaitingKeepsMovement ==
    [][\A i \in PickerIds :
          /\ (pickers[i].state = "WAITING" /\ pickers'[i].state # "WAITING") =>
                pickers'[i].state = MovementKind(pickers[i])
          /\ (pickers[i].state \in {"MOVING_TO_ITEM", "MOVING_TO_EXIT"}
              /\ pickers'[i].state = "WAITING") =>
                pickers[i].state = MovementKind(pickers[i])
          /\ (pickers[i].state # "PICKING" /\ pickers'[i].state = "PICKING") =>
                /\ pickers[i].target_position # exit
                /\ AtCurrentItem(pickers'[i])
          /\ (pickers[i].target_position = exit /\ pickers[i].position # exit
              /\ pickers'[i].position = exit) =>
                pickers'[i].state = "EXITING"]_vars

\* picker i takes a path step: the step counter total_distance goes up
PathStep(i) == pickers'[i].total_distance # pickers[i].total_distance

\* C28: a picker takes at most one path step per tick, in its own update; a
\* step is stamped with the clock, and at least 1.0 + 0.1 * load_points
\* time-units, with the load of the later step, lie between it and the
\* picker's step before it.
C28_RateLimited ==
    [][\A i \in PickerIds :
          /\ PathStep(i) =>
                /\ pc = i
                /\ pickers'[i].total_distance = pickers[i].total_distance + 1
                /\ pickers'[i].last_move_time = current_time
                /\ current_time - pickers[i].last_move_time
                      >= 10 + pickers'[i].load.load_points
                /\ current_time - pickers[i].last_move_time >= 10
          /\ ~PathStep(i) => pickers'[i].last_move_time = pickers[i].last_move_time]_vars

\* a picker that carries a small item has taken a step 1.1 or more after the
\* step before it
C28_Witness ==
    \E i \in PickerIds :
       /\ pickers[i].load.load_points = 1
       /\ pickers[i].total_distance >= 2
       /\ pickers[i].last_move_time = current_time
       /\ pickers[i].state = "MOVING_TO_EXIT"
       /\ pc = i + 1

\* the points of a sequence of items
RECURSIVE PointsOf(_)
PointsOf(items) ==
    IF items = <<>> THEN 0 ELSE ItemPoints(Head(items).size) + PointsOf(Tail(items))

\* the load of picker p is the items of its order that lie before the cursor
LoadIsPickedPrefix(p) ==
    /\ p.current_item_index <= Len(p.current_order.items)
    /\ p.load.items_carried = SubSeq(p.current_order.items, 1, p.current_item_index)
    /\ p.load.load_points = PointsOf(p.load.items_carried)

\* C29: a pick completes only when the item's pick duration has passed since
\* the picker entered Picking; it adds the item to the load and advances the
\* cursor by exactly one; while a picker holds an order its load is exactly
\* the order's items before the cursor.
C29_PickCompletes ==
    /\ [](\A i \in PickerIds :
            pickers[i].current_order # NoOrder => LoadIsPickedPrefix(pickers[i]))
    /\ [][\A i \in PickerIds :
            /\ (pickers[i].state # "PICKING" /\ pickers'[i].state = "PICKING") =>
                  pickers'[i].pick_start_time = current_time
            /\ (pickers[i].state = "PICKING" /\ pickers'[i].state = "PICKING") =>
                  /\ pickers'[i].pick_start_time = pickers[i].pick_start_time
                  /\ pickers'[i].current_item_index = pickers[i].current_item_index
                  /\ pickers'[i].load = pickers[i].load
            /\ (pickers[i].current_order # NoOrder
                /\ pickers'[i].current_order = pickers[i].current_order
                /\ pickers'[i].current_item_index # pickers[i].current_item_index) =>
                  /\ pc = i
                  /\ pickers[i].state = "PICKING"
                  /\ pickers'[i].current_item_index = pickers[i].current_item_index + 1
                  /\ current_time - pickers[i].pick_start_time >=
                        pickers[i].current_order.items[pickers'[i].current_item_index].pick_time
                  /\ pickers'[i].load.items_carried =
                        Append(pickers[i].load.items_carried,
                               pickers[i].current_order.items[pickers'[i].current_item_index])
            /\ (pickers[i].current_order # NoOrder
                /\ pickers'[i].current_order = pickers[i].current_order
                /\ pickers'[i].current_item_index = pickers[i].current_item_index) =>
                  pickers'[i].load = pickers[i].load]_vars

\* C30: assign_order succeeds exactly on a picker that is Idle with no current
\* order; it then leaves the picker with the order, an empty load, cursor 0,
\* and MovingToItem to the first item's (x, y), or MovingToExit to the exit
\* when the order has no item or its first item cannot fit; when it refuses
\* it returns false and changes no field of the picker.
C30_AssignOrder ==
    [][(call = NoCall /\ call'.op = "assign_order") =>
         LET i == call'.picker_index
             o == call'.order
         IN  /\ call'.ok <=> (pickers[i].state = "IDLE" /\ pickers[i].current_order = NoOrder)
             /\ \A j \in PickerIds \ {i} : pickers'[j] = pickers[j]
             /\ IF call'.ok
                THEN /\ pickers'[i].current_order = o
                     /\ pickers'[i].load = EmptyLoad
                     /\ pickers'[i].current_item_index = 0
                     /\ IF o.items = <<>> \/ ItemPoints(o.items[1].size) > max_points
                        THEN /\ pickers'[i].state = "MOVING_TO_EXIT"
                             /\ pickers'[i].target_position = exit
                        ELSE /\ pickers'[i].state = "MOVING_TO_ITEM"
                             /\ pickers'[i].target_position =
                                   <<o.items[1].location[1], o.items[1].location[2]>>
                ELSE pickers'[i] = pickers[i]]_vars

\* a picker that is Waiting with its order has refused another order
C30_Witness ==
    /\ call.op = "assign_order"
    /\ ~call.ok
    /\ pickers[call.picker_index].state = "WAITING"
    /\ pickers[call.picker_index].current_order # NoOrder
    /\ pickers[call.picker_index].current_order # call.order

\* an Idle picker has taken the order handed to it
C30_AcceptedWitness ==
    /\ call.op = "assign_order"
    /\ call.ok
    /\ pickers[call.picker_index].current_order = call.order
    /\ pickers[call.picker_index].orders_completed > 0

\* picker i is under way with a path step left and its move delay has passed
DueToStep(i) ==
    /\ pickers[i].state \in {"MOVING_TO_ITEM", "MOVING_TO_EXIT"}
    /\ pickers[i].path_index < Len(pickers[i].current_path)
    /\ current_time - pickers[i].last_move_time >= 10 + pickers[i].load.load_points

\* the cell the path of picker i names next
NextCell(i) == pickers[i].current_path[pickers[i].path_index + 1]

\* C31: when two pickers are due to step into the same free cell in one tick,
\* the one earlier in the list steps into it, and the later one, which sees
\* the new position, does not move and enters Waiting in that tick.
C31_ListOrderRightOfWay ==
    [][(pc \in PickerIds /\ pc' # pc /\ DueToStep(pc)) =>
         /\ ~Obstructed(pc) =>
               /\ pickers'[pc].position = NextCell(pc)
               /\ pickers'[pc].last_move_time = current_time
         /\ (\E i \in 1..(pc - 1) :
                /\ pickers[i].position = NextCell(pc)
                /\ pickers[i].last_move_time = current_time) =>
               /\ pickers'[pc].state = "WAITING"
               /\ pickers'[pc].wait_start_time = current_time
               /\ pickers'[pc].position = pickers[pc].position
               /\ pickers'[pc].path_index = pickers[pc].path_index
               /\ pickers'[pc].total_distance = pickers[pc].total_distance]_vars

\* the first picker has just stepped into the cell the second one was due to
\* step into, and the second one waits from this tick on without having moved
C31_Witness ==
    /\ Len(pickers) = 2
    /\ pc = 3
    /\ current_time > 0
    /\ pickers[1].last_move_time = current_time
    /\ pickers[2].state = "WAITING"
    /\ pickers[2].wait_start_time = current_time
    /\ pickers[2].path_index < Len(pickers[2].current_path)
    /\ pickers[2].current_path[pickers[2].path_index + 1] = pickers[1].position
    /\ pickers[2].position # pickers[1].position
    /\ current_time - pickers[2].last_move_time >= 10 + pickers[2].load.load_points

\* C32: when a picker was made to wait for a cell that a peer held, then once
\* it has stepped onto that cell some picker has a total_wait_time above 0.
C32_WaitAccrued ==
    (\E j \in PickerIds : contested[j].passed) =>
        \E k \in PickerIds : pickers[k].total_wait_time > 0

\* the second picker waited for a cell the first one held, has stepped onto it
\* since, and has waiting time on its account
C32_Witness ==
    /\ Len(pickers) = 2
    /\ contested[2].passed
    /\ pickers[2].total_wait_time > 0
    /\ pickers[1].total_wait_time = 0

\* the cells held against picker i when it replans after a timeout: every
\* peer's position and every peer's next three planned path cells
CongestionCells(i) ==
    {pickers[j].position : j \in PickerIds \ {i}} \cup
    {c \in PathCells : \E j \in PickerIds \ {i} : \E k \in 1..3 :
        /\ pickers[j].path_index + k <= Len(pickers[j].current_path)
        /\ pickers[j].current_path[pickers[j].path_index + k] = c}

\* the path is a 4-connected walk of walkable cells from a neighbour of start
\* to goal
WalkFrom(start, path, goal) ==
    /\ path # <<>>
    /\ path[Len(path)] = goal
    /\ Manhattan(start, path[1]) = 1
    /\ \A k \in 1..Len(path) : Floor(path[k])
    /\ \A k \in 1..(Len(path) - 1) : Manhattan(path[k], path[k + 1]) = 1

\* the update of picker pc is the one that ends its stay in Waiting by timeout
TimeoutReplan ==
    /\ pc \in PickerIds
    /\ pc' # pc
    /\ pickers[pc].state = "WAITING"
    /\ Obstructed(pc)
    /\ current_time - pickers[pc].wait_start_time > 50

\* what a congestion-avoiding replan leaves picker i with
ReplanOutcome(i) ==
    /\ pickers'[i].path_index = 0
    /\ pickers'[i].position = pickers[i].position
    /\ IF BfsMoves(pickers[i].position, pickers[i].target_position,
                   CongestionCells(i)) >= 0
       THEN /\ WalkFrom(pickers[i].position, pickers'[i].current_path,
                        pickers[i].target_position)
            /\ \A k \in 1..Len(pickers'[i].current_path) :
                  pickers'[i].current_path[k] \notin CongestionCells(i)
       ELSE pickers'[i].current_path =
               find_path(pickers[i].position, pickers[i].target_position, {})

\* C33: a picker blocked in Waiting for more than 5 time-units replans with
\* every peer's position and next three planned path cells held against it;
\* it adopts a path that avoids all of them whenever one exists, falls back
\* to the path that ignores the peers only when none exists, and leaves
\* Waiting in both cases.  The replan itself is also checked where the host
\* asks for it while the peers are on their way.
C33_CongestionReplan ==
    [][/\ TimeoutReplan =>
            /\ pickers'[pc].state # "WAITING"
            /\ ReplanOutcome(pc)
       /\ (call = NoCall /\ call'.op = "_replan_path") =>
            /\ ReplanOutcome(call'.picker_index)
            /\ pickers'[call'.picker_index].state = pickers[call'.picker_index].state]_vars

\* a picker that waited for more than 5 time-units has adopted a path around
\* its peer and has not stepped yet
C33_Witness ==
    \E i \in PickerIds :
       /\ pc = i + 1
       /\ pickers[i].state # "WAITING"
       /\ pickers[i].wait_start_time > 0
       /\ current_time - pickers[i].wait_start_time > 50
       /\ pickers[i].last_move_time < pickers[i].wait_start_time
       /\ pickers[i].total_wait_time = 0
       /\ pickers[i].path_index = 0
       /\ pickers[i].current_path # <<>>
       /\ \A k \in 1..Len(pickers[i].current_path) :
             \A j \in PickerIds \ {i} : pickers[j].position # pickers[i].current_path[k]

\* a picker that waited for more than 5 time-units found no way around its
\* peer and has adopted a path through the peer's cell
C33_FallbackWitness ==
    \E i \in PickerIds :
       /\ pc = i + 1
       /\ pickers[i].state # "WAITING"
       /\ pickers[i].wait_start_time > 0
       /\ current_time - pickers[i].wait_start_time > 50
       /\ pickers[i].last_move_time < pickers[i].wait_start_time
       /\ pickers[i].total_wait_time = 0
       /\ pickers[i].path_index = 0
       /\ \E k \in 1..Len(pickers[i].current_path) :
             \E j \in PickerIds \ {i} : pickers[j].position = pickers[i].current_path[k]

\* a replan that had to keep off a cell a peer is about to step onto, which
\* the peer does not stand on
C33_PlannedCellsWitness ==
    /\ call.op = "_replan_path"
    /\ \E j \in PickerIds \ {call.picker_index} :
          /\ pickers[j].path_index < Len(pickers[j].current_path)
          /\ pickers[j].current_path[pickers[j].path_index + 1] # pickers[j].position
          /\ Manhattan(pickers[j].current_path[pickers[j].path_index + 1],
                       pickers[call.picker_index].position) = 1
    /\ pickers[call.picker_index].current_path # <<>>

\* C34: whenever total_distance goes up, it goes up by one, the picker's
\* position changes to a walkable cell 4-adjacent to the one it left, and the
\* path cursor ends one past the cell stepped onto; so total_distance counts
\* the cell-to-cell moves of the picker.
C34_CountedStepsAreMoves ==
    [][\A i \in PickerIds :
          PathStep(i) =>
             /\ pickers'[i].total_distance = pickers[i].total_distance + 1
             /\ Manhattan(pickers[i].position, pickers'[i].position) = 1
             /\ Floor(pickers'[i].position)
             /\ pickers'[i].path_index >= 1
             /\ pickers'[i].current_path[pickers'[i].path_index] = pickers'[i].position]_vars

\* the only counted step that is not a move is the first step of a path
\* _replan_path took from its fallback, which starts with the picker's own cell
C34_CountedStepsUnlessFallback ==
    [][\A i \in PickerIds :
          PathStep(i) =>
             /\ pickers'[i].total_distance = pickers[i].total_distance + 1
             /\ pickers'[i].path_index >= 1
             /\ pickers'[i].current_path[pickers'[i].path_index] = pickers'[i].position
             /\ Floor(pickers'[i].position)
             /\ \/ Manhattan(pickers[i].position, pickers'[i].position) = 1
                \/ /\ pickers'[i].position = pickers[i].position
                   /\ pickers'[i].path_index = 1
                   /\ pickers'[i].current_path =
                         find_path(pickers[i].position, pickers[i].target_position, {})]_vars

\* C35: a path step never takes a picker onto a cell another picker stands on
\* at that moment (so two pickers never swap cells), on a peer-avoiding path
\* and on a fallback path alike; a picker due to step whose next cell is held
\* keeps its position, path cursor and total_distance and enters Waiting.
C35_NoStepOntoPeer ==
    [][\A i \in PickerIds :
          /\ PathStep(i) =>
                \A j \in PickerIds \ {i} :
                   /\ pickers[j].position # pickers'[i].position
                   /\ pickers'[j].position # pickers'[i].position
          /\ (pc = i /\ pc' # pc /\ DueToStep(i) /\ Obstructed(i)) =>
                /\ pickers'[i].state = "WAITING"
                /\ pickers'[i].position = pickers[i].position
                /\ pickers'[i].path_index = pickers[i].path_index
                /\ pickers'[i].total_distance = pickers[i].total_distance
          /\ (pickers[i].state # "WAITING" /\ pickers'[i].state = "WAITING") =>
                /\ pickers'[i].position = pickers[i].position
                /\ pickers'[i].total_distance = pickers[i].total_distance]_vars

\* a picker on a peer-avoiding path has been stopped in this tick before a
\* cell a peer stands on
C35_Witness ==
    \E i \in PickerIds :
       /\ pickers[i].state = "WAITING"
       /\ pickers[i].wait_start_time = current_time
       /\ ~contested[i].fallback
       /\ pickers[i].total_distance >= 1
       /\ Obstructed(i)

\* a picker on a fallback path has been stopped in this tick before a cell a
\* peer stands on
C35_FallbackWitness ==
    \E i \in PickerIds :
       /\ pickers[i].state = "WAITING"
       /\ pickers[i].wait_start_time = current_time
       /\ contested[i].fallback
       /\ pickers[i].path_index >= 1
       /\ Obstructed(i)

\* the orders the pickers hold and the orders they have completed
Holders == {i \in PickerIds : pickers[i].current_order # NoOrder}

RECURSIVE SumCompleted(_)
SumCompleted(n) == IF n = 0 THEN 0 ELSE pickers[n].orders_completed + SumCompleted(n - 1)

\* the ids of the orders in the pending queue
PendingIds == {pending_orders[k].order_id : k \in 1..Len(pending_orders)}

\* C36: at every tick boundary the number of pending orders, the number of
\* pickers that hold an order and the sum of orders_completed add up to the
\* number of add_order calls; no order is pending twice, held by two pickers
\* or pending and held at once; and an order that leaves the pending queue is
\* the current order of a picker that had none.
C36_OrderConservation ==
    /\ [](AtTickBoundary =>
            /\ Len(pending_orders) + Cardinality(Holders) + SumCompleted(Len(pickers))
                  = orders_added
            /\ Cardinality(PendingIds) = Len(pending_orders)
            /\ \A i \in Holders :
                  /\ pickers[i].current_order.order_id \notin PendingIds
                  /\ \A j \in Holders \ {i} :
                        pickers[j].current_order.order_id # pickers[i].current_order.order_id)
    /\ [][\A k \in 1..Len(pending_orders) :
             (\A n \in 1..Len(pending_orders') : pending_orders'[n] # pending_orders[k]) =>
                \E i \in PickerIds : /\ Received(i)
                                     /\ pickers'[i].current_order = pending_orders[k]]_vars

\* two orders have been added: one has been completed and one is held
C36_Witness ==
    /\ AtTickBoundary
    /\ orders_added >= 2
    /\ Cardinality(Holders) >= 1
    /\ SumCompleted(Len(pickers)) >= 1

\* C37: a picker is Idle exactly when it has no current order; an Idle picker
\* stands on the first entrance cell; and an Idle picker changes in no step
\* but the assign_order that hands it an order, so that update leaves it as
\* it is.
C37_IdleIffNoOrder ==
    /\ [](\A i \in PickerIds :
            /\ pickers[i].state = "IDLE" <=> pickers[i].current_order = NoOrder
            /\ pickers[i].state = "IDLE" => pickers[i].position = entrances[1])
    /\ [][\A i \in PickerIds :
             (pickers[i].state = "IDLE" /\ pickers'[i] # pickers[i]) =>
                /\ pc \notin PickerIds
                /\ Received(i)
                /\ pickers'[i] = assign_order(pickers[i], pickers'[i].current_order)]_vars

\* a picker that has completed an order is Idle again and has been through
\* its update of the tick under way, while another picker is at work
C37_Witness ==
    \E i \in PickerIds :
       /\ pickers[i].state = "IDLE"
       /\ pickers[i].orders_completed >= 1
       /\ pickers[i].last_move_time < current_time
       /\ pc > i
       /\ \E j \in PickerIds : pickers[j].state \notin {"IDLE", "EXITING"}

\* C38: total_wait_time changes only in the step that ends a stay in Waiting,
\* and that step adds the length of the stay, current_time - wait_start_time,
\* whether the next cell has become free or the timeout has fired; so
\* total_wait_time is the time spent in finished stays and never decreases.
C38_WaitAccounting ==
    [][\A i \in PickerIds :
          /\ pickers'[i].total_wait_time >= pickers[i].total_wait_time
          /\ IF pickers[i].state = "WAITING" /\ pickers'[i].state # "WAITING"
             THEN pickers'[i].total_wait_time =
                     pickers[i].total_wait_time + (current_time - pickers[i].wait_start_time)
             ELSE pickers'[i].total_wait_time = pickers[i].total_wait_time]_vars

\* the stays that end because the next cell is free are accounted for, and
\* total_wait_time changes in no other step and never decreases
C38_WaitAccountingUnlessTimeout ==
    [][\A i \in PickerIds :
          /\ pickers'[i].total_wait_time >= pickers[i].total_wait_time
          /\ IF pickers[i].state = "WAITING" /\ pickers'[i].state # "WAITING" /\ ~Obstructed(i)
             THEN pickers'[i].total_wait_time =
                     pickers[i].total_wait_time + (current_time - pickers[i].wait_start_time)
             ELSE pickers'[i].total_wait_time = pickers[i].total_wait_time]_vars

====
